---- MODULE Spec2Model ----
(***************************************************************************)
(* Verification orchestration of the code analyzer: the request boundary   *)
(* (rest/analyze.py), the coordinator TestRunner.run_functional_           *)
(* verification (services/sandbox/test_runner.py) and the lifecycle        *)
(* manager ProjectRunner (services/sandbox/project_runner.py), run as      *)
(* asyncio tasks on one event loop.  A task runs atomically from one       *)
(* await to the next: cur names the task that holds the loop, and 0 means  *)
(* every task is suspended in an await.                                    *)
(***************************************************************************)
EXTENDS Integers, Sequences, FiniteSets, TLC

\* ------------------------------------------------------------------ bounds
MaxTasks == 2
NumIds == 2
MaxSteps == 17      \* the steps of a run whose history is kept

Tasks == 1..MaxTasks
ProjectIds == 1..NumIds
NoProject == 0

\* ------------------------------------------------------------------ stages
EXTRACTING == "extracting"
ANALYZING_CODE == "analyzing_code"
ANALYZING_STARTUP == "analyzing_startup"
STARTING_PROJECT == "starting_project"
WAITING_HEALTH == "waiting_health"
GENERATING_TESTS == "generating_tests"
RUNNING_TESTS == "running_tests"
CLEANUP == "cleanup"
COMPLETE == "complete"
ERROR == "error"
END_SENTINEL == "__END__"

\* ------------------------------------------------------------------ exceptions
NoExc == [cls |-> "None", msg |-> ""]
CancelledError == [cls |-> "CancelledError", msg |-> ""]
ZipExtractionError == [cls |-> "ZipExtractionError", msg |-> "Failed to extract ZIP"]
LLMAnalysisError == [cls |-> "LLMAnalysisError", msg |-> "Analysis failed"]
StartupAnalysisError == [cls |-> "UserError", msg |-> "provider setup failed"]
UnknownStartupError == [cls |-> "RuntimeError", msg |-> "Could not determine how to start the project"]
NoWorkingDirError == [cls |-> "AttributeError", msg |-> "'StartupConfig' object has no attribute 'working_dir'"]
NoStopCommandError == [cls |-> "AttributeError", msg |-> "'StartupConfig' object has no attribute 'stop_command'"]
NoContainerNameError == [cls |-> "AttributeError", msg |-> "'RunningProject' object has no attribute 'container_name'"]
ComposeNotFoundError == [cls |-> "RuntimeError", msg |-> "docker-compose.yml not found"]
HealthTimeoutError == [cls |-> "RuntimeError", msg |-> "Health check timeout after 120s"]
TestGenerationError == [cls |-> "ModelHTTPError", msg |-> "test generation failed"]

UnknownMethodError(m) == [cls |-> "RuntimeError", msg |-> "Unknown start method: " \o m]
CommandTimeoutError(c) == [cls |-> "RuntimeError", msg |-> "Command timeout: " \o c]

\* An except clause of start_project that does not raise again
StartErrorSwallowed(e) == NoExc

\* start_project's `raise RuntimeError(f"Failed to start project: {e}")`
FailedToStartError(e) == [cls |-> "RuntimeError", msg |-> "Failed to start project: " \o e.msg]

\* `except Exception` catches every exception but the BaseExceptions, of which
\* asyncio.CancelledError is the one this program meets.
IsException(e) == e.cls \notin {"None", "CancelledError"}

\* ------------------------------------------------------------------ StartupConfig
NoAttr == "<no attribute>"
NoUrl == ""
StartMethods == {"docker-compose", "dockerfile", "npm", "python", "go", "unknown"}

\* A config object as start_project and stop_project read it.  The dataclass
\* of startup_analyzer.py declares neither working_dir nor stop_command
\* (has_working_dir = FALSE, stop_command = NoAttr); a config that carries
\* them, as project_runner.py expects, has both.
Configs ==
    { c \in [ start_method : StartMethods,
              has_working_dir : BOOLEAN,
              stop_command : {NoAttr, "", "stop.sh"},
              health_check_url : {NoUrl, "http://localhost:3000/health"} ] :
        c.has_working_dir <=> (c.stop_command # NoAttr) }

NoConfig == [ start_method |-> "", has_working_dir |-> FALSE,
              stop_command |-> NoAttr, health_check_url |-> NoUrl ]

\* ------------------------------------------------------------------ state
VARIABLES
    running_projects,  \* ProjectRunner.running_projects: project_id -> project
    project,           \* the RunningProject objects, by the task that created them
    docker,            \* containers and compose namespaces that exist: <<kind, id>>
    cur,               \* the task that holds the event loop, 0 if none
    kind,              \* what a task is: "plain", "stream" request or "stop" client
    pc,                \* a task's position
    startup_config,    \* run_functional_verification's startup_config
    exc,               \* the exception a task's frame is propagating
    stop_exc,          \* the exception inside (then leaving) stop_project
    stop_caught,       \* the exception stop_project's except clause logged
    ret,               \* the caller stop_project returns to
    target,            \* the project stop_project was called on
    cmd,               \* the shell command a task awaits
    rfv_project,       \* run_functional_verification's local `project`
    rfv_result,        \* how run_functional_verification ended
    events,            \* the events handed to on_progress
    response,          \* the AnalyzeResponse of the request
    result,            \* how the request handler ended
    cancelled,         \* task.cancel() was called on the task
    test_proc,         \* how the process of the generated test ends when it is run
    trace,             \* history: whether steps are recorded, and per task the
                       \* steps it took with the collaborators' answers
    clock,             \* the event loop's time, in seconds, while a health wait is timed
    returned,          \* what a direct call of _run_command or _execute_tests gave back
    env_files,         \* the environment files in a project's working directory
    config_commands,   \* the config's install_command and start_command
    container_cmd,     \* the commands `sh -c` runs in the native variant's container
    sink_raises,       \* the stages on which the caller's progress sink raises
    stream             \* the streaming endpoint's queue and its consumer

vars == << running_projects, project, docker, cur, kind, pc, startup_config, exc,
           stop_exc, stop_caught, ret, target, cmd, rfv_project, rfv_result, events, response,
           result, cancelled, test_proc, trace, clock, returned, env_files,
           config_commands, container_cmd, sink_raises, stream >>

NoRunningProject ==
    [ created |-> FALSE, project_id |-> 0, is_running |-> FALSE,
      provisioned |-> FALSE, started |-> FALSE,
      cmd_failed |-> FALSE,
      stop_calls |-> 0, teardown_cmds |-> 0, stops_done |-> 0 ]

NoVerification == [ present |-> FALSE, generated_test_code |-> "", tests_passed |-> FALSE, log |-> "" ]
Pending == [cls |-> "Pending", msg |-> ""]
NoTrace == [on |-> FALSE, steps |-> [t \in Tasks |-> << >>]]
NoAnswer == -1
NoClock == [on |-> FALSE, now |-> 0, start_time |-> 0, estimate |-> 0,
            last |-> NoAnswer, probe_time |-> 0]
NotCalled == [called |-> FALSE]
NoFile == "<no file>"
NoEnvFiles == [env |-> NoFile, example |-> NoFile, compose_example |-> NoFile]
NoCommands == [install_command |-> "", start_command |-> ""]
NoStream == [on |-> FALSE, queue |-> << >>, delivered |-> 0, yielded |-> << >>,
             consumer |-> "none"]

InitProgram ==
    /\ running_projects = [i \in ProjectIds |-> NoProject]
    /\ project = [t \in Tasks |-> NoRunningProject]
    /\ docker = {}
    /\ cur = 0
    /\ kind = [t \in Tasks |-> "none"]
    /\ pc = [t \in Tasks |-> "idle"]
    /\ startup_config = [t \in Tasks |-> NoConfig]
    /\ exc = [t \in Tasks |-> NoExc]
    /\ stop_exc = [t \in Tasks |-> NoExc]
    /\ stop_caught = [t \in Tasks |-> NoExc]
    /\ ret = [t \in Tasks |-> "none"]
    /\ target = [t \in Tasks |-> NoProject]
    /\ cmd = [t \in Tasks |-> "none"]
    /\ rfv_project = [t \in Tasks |-> NoProject]
    /\ rfv_result = [t \in Tasks |-> Pending]
    /\ events = [t \in Tasks |-> << >>]
    /\ response = [t \in Tasks |-> [has_analysis |-> FALSE, verification |-> NoVerification]]
    /\ result = [t \in Tasks |-> "pending"]
    /\ cancelled = [t \in Tasks |-> FALSE]
    /\ test_proc = [t \in Tasks |-> "none"]
    /\ returned = [t \in Tasks |-> NotCalled]
    /\ container_cmd = [t \in Tasks |-> << >>]

\* A run whose working directories hold no environment file, whose configs
\* leave both commands empty and whose sinks raise nothing
NoInputs ==
    /\ env_files = [t \in Tasks |-> NoEnvFiles]
    /\ config_commands = [t \in Tasks |-> NoCommands]
    /\ sink_raises = [t \in Tasks |-> {}]

Init == InitProgram /\ trace = NoTrace /\ clock = NoClock /\ NoInputs /\ stream = NoStream


\* ------------------------------------------------------------------ helpers
Set(f, t, v) == [f EXCEPT ![t] = v]

\* The two runs that are compared: the same request made with a progress
\* sink (the streaming endpoint) and then without one (the plain endpoint)
WithSink == 1
WithoutSink == 2

\* The history of a step.  While a history is kept, the step of task t and
\* the answer `input` it got from its collaborators are appended to the
\* task's steps; the run without a sink gets, at each step, the answer the
\* run with the sink got at that step.
Record(t, name, input) ==
    IF ~trace.on THEN UNCHANGED trace
    ELSE LET mine == trace.steps[t]
             n == Len(mine) + 1
             first == trace.steps[WithSink]
         IN /\ n <= MaxSteps
            /\ (t = WithoutSink /\ n <= Len(first) /\ first[n].name = name)
                  => first[n].input = input
            /\ trace' = [trace EXCEPT !.steps[t] =
                             Append(mine, [name |-> name, input |-> input])]

\* emit(): on_progress is given by the streaming endpoint (send_event) and
\* by a client that passes a sink of its own; without a sink nothing is
\* handed over.
Emit(k, log, evs) == IF k \in {"stream", "verify"} THEN log \o evs ELSE log

\* A call of the sink made without the test `if on_progress`
NoneNotCallableError == [cls |-> "TypeError", msg |-> "'NoneType' object is not callable"]
EmitErrorUnguarded(k) == IF k = "stream" THEN NoExc ELSE NoneNotCallableError

\* What emit() raises for a request of kind k: it calls on_progress only if
\* one was given, so the absence of a sink raises nothing.  The answer is
\* the same for every emit() of a run, so the first one decides.
EmitError(k) == NoExc

\* What a sink that fails raises into emit(), which does not catch it
SinkError == [cls |-> "SinkError", msg |-> "progress sink failed"]

\* emit() of the stages evs, one after the other, by task t: the events
\* handed to the sink, up to the first one the sink raises on, and the
\* exception that then leaves emit()
Emitted(t, evs) ==
    LET bad == {i \in DOMAIN evs : evs[i] \in sink_raises[t]}
        n == IF bad = {} THEN Len(evs) ELSE CHOOSE i \in bad : \A j \in bad : i <= j
    IN [ log |-> Emit(kind[t], events[t], SubSeq(evs, 1, n)),
         err |-> IF bad = {} THEN NoExc ELSE SinkError ]

\* A coordinator that lets an undetermined start method through
IsUnknownNever(c) == FALSE

\* run_functional_verification's refusal of an undetermined start method
IsUnknown(c) == c.start_method = "unknown"

\* A dispatch that runs start method "go" in the native variant
StartVariantGoNative(c) ==
    IF c.start_method = "docker-compose" THEN "compose"
    ELSE IF c.start_method = "dockerfile" THEN "dockerfile"
    ELSE IF c.start_method \in {"npm", "python", "go"} THEN "native"
    ELSE "unknown"

\* start_project's dispatch on config.start_method
StartVariant(c) ==
    IF c.start_method = "docker-compose" THEN "compose"
    ELSE IF c.start_method = "dockerfile" THEN "dockerfile"
    ELSE IF c.start_method \in {"npm", "python"} THEN "native"
    ELSE "unknown"

\* The first command of a start variant
FirstStartCommand(v) ==
    IF v = "compose" THEN "compose_up"
    ELSE IF v = "dockerfile" THEN "docker_build"
    ELSE "native_run"

\* stop_project's try block up to its await: the exception it raises or the
\* teardown command it issues ("none": no branch applies).
StopCommand(c) ==
    IF ~c.has_working_dir THEN [err |-> NoWorkingDirError, cmd |-> "none"]
    ELSE IF c.start_method = "docker-compose" THEN [err |-> NoExc, cmd |-> "compose_down"]
    ELSE IF c.start_method = "dockerfile" THEN [err |-> NoExc, cmd |-> "docker_rm"]
    ELSE IF c.stop_command = NoAttr THEN [err |-> NoStopCommandError, cmd |-> "none"]
    ELSE IF c.stop_command # "" THEN [err |-> NoExc, cmd |-> "stop_command"]
    ELSE [err |-> NoExc, cmd |-> "none"]

\* A stop_project with try/finally and no except clause
StopCatchesNothing(e) == FALSE

\* stop_project's `except Exception as e: logger.warning(...)`
StopCatches(e) == IsException(e)

\* `del d[key]`: unlike pop with a default it raises for a missing key
DictDel(tbl, k) ==
    IF tbl[k] = NoProject THEN [tbl |-> tbl, err |-> [cls |-> "KeyError", msg |-> ""]]
    ELSE [tbl |-> [tbl EXCEPT ![k] = NoProject], err |-> NoExc]

\* dict.pop(key, None)
DictPop(tbl, k) == [tbl |-> [tbl EXCEPT ![k] = NoProject], err |-> NoExc]

\* The two statements of the finally block placed at the end of the try
\* block instead: they are skipped when the try block raised e
ElseTable(tbl, k, e) == IF e = NoExc THEN DictPop(tbl, k) ELSE [tbl |-> tbl, err |-> NoExc]
ElseIsRunning(was, e) == IF e = NoExc THEN FALSE ELSE was

\* stop_project's finally block: it runs whatever exception e the try block met
FinallyTable(tbl, k, e) == DictPop(tbl, k)
FinallyIsRunning(was, e) == FALSE

\* A boundary that catches RuntimeError only
BoundaryCatchesRuntimeError(e) == e.cls = "RuntimeError"

\* The request boundary's `except Exception as e`
BoundaryCatches(e) == IsException(e)

\* The degraded FunctionalVerification the request boundary builds
DegradedVerification(e) ==
    [ present |-> TRUE,
      generated_test_code |-> "# Verification failed: " \o e.msg,
      tests_passed |-> FALSE,
      log |-> "Error: " \o e.msg ]

\* ------------------------------------------------------------------ test execution
\* How the process `docker exec <container> node <test file>` can end:
\* exit code 0, exit code 1 with "assertion failed" on stderr, or still
\* running after 60 seconds.
TestProcs == {"exit0", "exit1", "timeout"}

\* _execute_tests: the dict it returns, given whether `docker cp` put the
\* test file into the container and how the test process ends
ExecuteTests(copied, tp) ==
    IF ~copied THEN [passed |-> FALSE, log |-> "Failed to copy test file to container"]
    ELSE IF tp = "timeout" THEN [passed |-> FALSE, log |-> "Test execution timeout (60s)"]
    ELSE [ passed |-> tp = "exit0",
           log |-> IF tp = "exit1" THEN "assertion failed" ELSE "(no output)" ]

\* The FunctionalVerification run_functional_verification returns
VerificationOf(r) ==
    [ present |-> TRUE, generated_test_code |-> "test code",
      tests_passed |-> r.passed, log |-> r.log ]

\* ------------------------------------------------------------------ commands
\* How a child process can end: its exit ("timeout": still running when the
\* wait times out and the process is killed) and whether its effect on the
\* docker daemon took place.
Outcomes ==
    { [exit |-> "ok", effect |-> TRUE],
      [exit |-> "fail", effect |-> FALSE], [exit |-> "fail", effect |-> TRUE],
      [exit |-> "timeout", effect |-> FALSE], [exit |-> "timeout", effect |-> TRUE] }

CmdOutcomes(c, dk, id) ==
    IF c = "docker_build" THEN {o \in Outcomes : o.effect = (o.exit = "ok")}
    ELSE IF c = "docker_run_noimage" THEN {o \in Outcomes : o.exit # "ok" /\ ~o.effect}
    ELSE IF c \in {"docker_run", "native_run"} /\ <<"container", id>> \in dk
        THEN {o \in Outcomes : o.exit # "ok"}
    ELSE Outcomes

\* The docker daemon's state after a command's effect
ApplyCmd(dk, c, id) ==
    IF c = "compose_up" THEN dk \cup {<<"compose", id>>}
    ELSE IF c \in {"docker_run", "native_run"} THEN dk \cup {<<"container", id>>}
    ELSE IF c = "compose_down" THEN dk \ {<<"compose", id>>}
    ELSE IF c \in {"docker_rm", "stop_command"} THEN dk \ {<<"container", id>>}
    ELSE dk

\* A _run_command that raises nothing
RunCommandErrorNever(c, o) == NoExc

\* _run_command: a non-zero exit is logged and returned, a timeout raises
RunCommandError(c, o) == IF o.exit = "timeout" THEN CommandTimeoutError(c) ELSE NoExc

\* The events run_functional_verification emits at each point
AfterAnalysisEvents == << ANALYZING_STARTUP >>
StartingEvents == << STARTING_PROJECT >>
AfterStartEventsRestart == << WAITING_HEALTH, STARTING_PROJECT, WAITING_HEALTH, GENERATING_TESTS >>
AfterStartEvents == << WAITING_HEALTH, WAITING_HEALTH, GENERATING_TESTS >>
AfterGenerationEvents == << GENERATING_TESTS, RUNNING_TESTS >>
CleanupBeginEvents == << CLEANUP >>
CleanupEndEventsNone == << >>
CleanupEndEvents == << CLEANUP >>

AwaitPcs == { "analyze_code", "analyze_startup", "start_cmd", "health_sleep",
              "health_get", "health_poll_sleep", "generate_tests", "stop_cmd" }

IdOf(p) == project[p].project_id
ConfigOf(p) == startup_config[p]

\* ------------------------------------------------------------------ request boundary
\* analyze_code_endpoint / run_analysis enter _analyze_with_verification
\* (k = "plain") or _analyze_with_verification_streaming (k = "stream"):
\* extract_zip runs without suspending, then analyze_code is awaited.
\* Each request constructs its own TestRunner, hence its own ProjectRunner
\* and running_projects table: the table modelled here belongs to one
\* request, and the other tasks are clients that call the manager directly.
BeginRequest(t, k, extract_ok) ==
    /\ Record(t, "BeginRequest", << extract_ok >>)
    /\ UNCHANGED << clock, returned, env_files, config_commands, container_cmd,
                    sink_raises, stream >>
    /\ cur = 0
    /\ pc[t] = "idle"
    /\ \A u \in Tasks : kind[u] \notin {"plain", "stream"}
    /\ kind' = Set(kind, t, k)
    /\ IF extract_ok
         THEN /\ events' = Set(events, t, Emit(k, << >>, << EXTRACTING, ANALYZING_CODE >>))
              /\ pc' = Set(pc, t, "analyze_code")
              /\ UNCHANGED << exc, cur >>
         ELSE /\ events' = Set(events, t, Emit(k, << >>, << EXTRACTING >>))
              /\ exc' = Set(exc, t, ZipExtractionError)
              /\ pc' = Set(pc, t, "request_exit")
              /\ cur' = t
    /\ UNCHANGED << running_projects, project, docker, startup_config, stop_exc,
                    stop_caught, ret, target, cmd, rfv_project, rfv_result, response,
                    result, cancelled, test_proc >>

\* analyze_code returns (generate_report builds the response, then
\* run_functional_verification emits its first event and awaits
\* analyze_startup_method) or raises.
AnalyzeCodeDone(t, ok) ==
    /\ Record(t, "AnalyzeCodeDone", << ok >>)
    /\ UNCHANGED << clock, returned, env_files, config_commands, container_cmd,
                    sink_raises, stream >>
    /\ cur = 0
    /\ pc[t] = "analyze_code"
    /\ IF ok /\ EmitError(kind[t]) = NoExc
         THEN /\ response' = Set(response, t, [response[t] EXCEPT !.has_analysis = TRUE])
              /\ events' = Set(events, t, Emit(kind[t], events[t], << ANALYZING_STARTUP >>))
              /\ pc' = Set(pc, t, "analyze_startup")
              /\ UNCHANGED << exc, cur >>
         ELSE IF ok
         THEN /\ response' = Set(response, t, [response[t] EXCEPT !.has_analysis = TRUE])
              /\ exc' = Set(exc, t, EmitError(kind[t]))
              /\ pc' = Set(pc, t, "rfv_finally")
              /\ cur' = t
              /\ UNCHANGED events
         ELSE /\ exc' = Set(exc, t, LLMAnalysisError)
              /\ pc' = Set(pc, t, "request_exit")
              /\ cur' = t
              /\ UNCHANGED << response, events >>
    /\ UNCHANGED << running_projects, project, docker, kind, startup_config, stop_exc,
                    stop_caught, ret, target, cmd, rfv_project, rfv_result, result,
                    cancelled, test_proc >>

\* ------------------------------------------------------------------ coordinator
\* analyze_startup_method returns config c: the second ANALYZING_STARTUP
\* event, the refusal of "unknown", then STARTING_PROJECT and the call of
\* start_project.
AnalyzeStartupDone(t, c) ==
    /\ Record(t, "analyze_startup_method", << c >>)
    /\ UNCHANGED << clock, returned, env_files, config_commands, container_cmd,
                    sink_raises, stream >>
    /\ cur = 0
    /\ pc[t] = "analyze_startup"
    /\ startup_config' = Set(startup_config, t, c)
    /\ LET em == Emitted(t, IF IsUnknown(c) THEN AfterAnalysisEvents
                                             ELSE AfterAnalysisEvents \o StartingEvents)
           err == IF em.err # NoExc THEN em.err
                  ELSE IF IsUnknown(c) THEN UnknownStartupError ELSE NoExc
       IN /\ events' = Set(events, t, em.log)
          /\ IF err # NoExc
               THEN /\ exc' = Set(exc, t, err)
                    /\ pc' = Set(pc, t, "rfv_finally")
               ELSE /\ pc' = Set(pc, t, "start_project")
                    /\ UNCHANGED exc
    /\ cur' = t
    /\ UNCHANGED << running_projects, project, docker, kind, stop_exc, stop_caught, ret,
                    target, cmd, rfv_project, rfv_result, response, result, cancelled,
                    test_proc >>

\* analyze_startup_method raises (its provider setup is outside its try)
AnalyzeStartupFails(t) ==
    /\ Record(t, "analyze_startup_method", << NoConfig >>)
    /\ UNCHANGED << clock, returned, env_files, config_commands, container_cmd,
                    sink_raises, stream >>
    /\ cur = 0
    /\ pc[t] = "analyze_startup"
    /\ exc' = Set(exc, t, StartupAnalysisError)
    /\ pc' = Set(pc, t, "rfv_finally")
    /\ cur' = t
    /\ UNCHANGED << running_projects, project, docker, kind, startup_config, stop_exc,
                    stop_caught, ret, target, cmd, rfv_project, rfv_result, events,
                    response, result, cancelled, test_proc >>

\* ------------------------------------------------------------------ start_project
\* A copy of the example files whose two tests both look at the directory
\* as it was at the start
CopyEnvExampleStale(f) ==
    IF f.env # NoFile THEN f
    ELSE IF f.compose_example # NoFile THEN [f EXCEPT !.env = f.compose_example]
    ELSE IF f.example # NoFile THEN [f EXCEPT !.env = f.example]
    ELSE f

\* _start_docker_compose's two copies: .env.example to .env if the one exists
\* and the other does not, then the same for .env.compose.example
CopyEnvExample(f) ==
    LET first == IF f.example # NoFile /\ f.env = NoFile
                   THEN [f EXCEPT !.env = f.example] ELSE f
    IN IF first.compose_example # NoFile /\ first.env = NoFile
         THEN [first EXCEPT !.env = first.compose_example] ELSE first

\* _start_native's `cmd`, the argument of `sh -c` in the container, as the
\* commands the shell runs one after the other (joined by &&):
\* `config.start_command or "<install> && <start>"` for the runtime
NativeShell(method, cc) ==
    IF cc.start_command # "" THEN << cc.start_command >>
    ELSE IF method = "npm" THEN << "npm install", "npm start" >>
    ELSE << "pip install -r requirements.txt", "python main.py" >>

\* What start_project's try block raises before its first await
StartError(c, compose_file) ==
    IF StartVariant(c) = "unknown" THEN UnknownMethodError(c.start_method)
    ELSE IF ~c.has_working_dir THEN NoWorkingDirError
    ELSE IF StartVariant(c) = "compose" /\ ~compose_file THEN ComposeNotFoundError
    ELSE NoExc

\* start_project up to its first await: the RunningProject with a uuid-derived
\* id, the dispatch, and the variant's first command.  compose_file says
\* whether the working directory holds a compose file; only
\* _start_docker_compose looks for one.
StartProject(t, id, compose_file) ==
    /\ Record(t, "StartProject", << id, compose_file >>)
    /\ UNCHANGED << clock, returned, config_commands, sink_raises, stream >>
    /\ cur = t
    /\ pc[t] = "start_project"
    /\ (StartVariant(startup_config[t]) # "compose" \/ ~startup_config[t].has_working_dir)
          => compose_file
    /\ LET c == startup_config[t]
           err == StartError(c, compose_file)
       IN /\ project' = Set(project, t, [NoRunningProject EXCEPT !.created = TRUE,
                                                                 !.project_id = id,
                                                                 !.provisioned = (err = NoExc)])
          /\ env_files' = IF err = NoExc /\ StartVariant(c) = "compose"
                             THEN Set(env_files, t, CopyEnvExample(env_files[t]))
                             ELSE env_files
          /\ container_cmd' = IF err = NoExc /\ StartVariant(c) = "native"
                                 THEN Set(container_cmd, t,
                                          NativeShell(c.start_method, config_commands[t]))
                                 ELSE container_cmd
          /\ IF err = NoExc
               THEN /\ cmd' = Set(cmd, t, FirstStartCommand(StartVariant(c)))
                    /\ pc' = Set(pc, t, "start_cmd")
                    /\ cur' = 0
                    /\ UNCHANGED exc
               ELSE /\ exc' = Set(exc, t, err)
                    /\ pc' = Set(pc, t, "start_except")
                    /\ UNCHANGED << cmd, cur >>
    /\ UNCHANGED << running_projects, docker, kind, startup_config, stop_exc, stop_caught,
                    ret, target, rfv_project, rfv_result, events, response, result,
                    cancelled, test_proc >>

\* What a probe `client.get(health_url)` can end with: a response with a
\* status code, or an exception (connection refused, the client's 5 s timeout)
ConnectError == 0
ProbeAnswers == {200, 404, 500, ConnectError}

\* A probe that takes a client error for an unhealthy service
IsHealthyBelow400(a) == a # ConnectError /\ a < 400

\* A probe that takes every response for a healthy one
IsHealthyAnyResponse(a) == a # ConnectError

\* _wait_for_health's test of a probe: response.status_code < 500; an
\* exception is swallowed
IsHealthy(a) == a # ConnectError /\ a < 500

\* A probe whose exception is not caught
ConnectErrorRaised == [cls |-> "ConnectError", msg |-> "All connection attempts failed"]
ProbeErrorPropagates(a) == IF a = ConnectError THEN ConnectErrorRaised ELSE NoExc

\* What leaves the try block around a probe: `except Exception as e` logs
\* the exception at debug level and the loop goes on
ProbeError(a) == NoExc

\* A health wait that probes whether or not a URL is configured
HealthWaitAlwaysProbes(c) == "health_get"

\* _wait_for_health up to its first await
HealthWaitPc(c) == IF c.health_check_url = NoUrl THEN "health_sleep" ELSE "health_get"

\* ------------------------------------------------------------------ time of the health wait
\* Times are whole seconds of the event loop's clock.  Only the health wait
\* is timed: the clock stands still while a command runs.
STARTUP_TIMEOUT == 120
ProbeTimeout == 5
PollInterval == 2

\* The values of config.estimated_startup_time
Estimates == {1, 90}

\* How long a probe takes: an answer may come at once, and a request that
\* hangs is cut off by the client's timeout
ProbeDurations == {0, 1, ProbeTimeout}

\* `elapsed = asyncio.get_event_loop().time() - start_time`
Elapsed == clock.now - clock.start_time

\* A deadline test that already fires one poll interval before the deadline
DeadlinePassedEarly(elapsed) == elapsed > STARTUP_TIMEOUT - PollInterval

\* `if elapsed > timeout`
DeadlinePassed(elapsed) == elapsed > STARTUP_TIMEOUT

\* `start_time = asyncio.get_event_loop().time()`
TakeStartTime ==
    IF clock.on THEN clock' = [clock EXCEPT !.start_time = clock.now] ELSE UNCHANGED clock

\* d seconds pass in an await
TimePasses(d) ==
    IF clock.on THEN clock' = [clock EXCEPT !.now = @ + d] ELSE UNCHANGED clock

\* A probe is answered with `answer` after one of the probe durations
ProbeTakes(answer) ==
    IF clock.on
      THEN \E d \in ProbeDurations :
              clock' = [clock EXCEPT !.now = @ + d, !.last = answer, !.probe_time = d]
      ELSE UNCHANGED clock

\* A provisioning command of _start_docker_compose, _start_dockerfile or
\* _start_native ends with outcome o.
StartCmdDone(t, o) ==
    /\ Record(t, "StartCmdDone", << o >>)
    /\ UNCHANGED << returned, env_files, config_commands, container_cmd, sink_raises,
                    stream >>
    /\ cur = 0
    /\ pc[t] = "start_cmd"
    /\ o \in CmdOutcomes(cmd[t], docker, IdOf(t))
    /\ docker' = IF o.effect THEN ApplyCmd(docker, cmd[t], IdOf(t)) ELSE docker
    /\ project' = Set(project, t, [project[t] EXCEPT !.cmd_failed = @ \/ o.exit = "fail"])
    /\ LET err == RunCommandError(cmd[t], o)
       IN IF err # NoExc
            THEN /\ exc' = Set(exc, t, err)
                 /\ pc' = Set(pc, t, "start_except")
                 /\ cmd' = Set(cmd, t, "none")
                 /\ cur' = t
            ELSE IF cmd[t] = "docker_build"
            THEN /\ cmd' = Set(cmd, t, IF o.exit = "ok" THEN "docker_run"
                                                        ELSE "docker_run_noimage")
                 /\ UNCHANGED << exc, pc, cur >>
            ELSE /\ pc' = Set(pc, t, HealthWaitPc(startup_config[t]))
                 /\ cmd' = Set(cmd, t, "none")
                 /\ UNCHANGED << exc, cur >>
    /\ IF RunCommandError(cmd[t], o) = NoExc /\ cmd[t] # "docker_build"
            /\ HealthWaitPc(startup_config[t]) = "health_get"
         THEN TakeStartTime
         ELSE UNCHANGED clock
    /\ UNCHANGED << running_projects, kind, startup_config, stop_exc, stop_caught,
                    ret, target, rfv_project, rfv_result, events, response, result,
                    cancelled, test_proc >>

\* _wait_for_health without a URL: the sleep of estimated_startup_time ends
HealthSleepDone(t) ==
    /\ Record(t, "HealthSleepDone", << >>)
    /\ UNCHANGED << returned, env_files, config_commands, container_cmd, sink_raises,
                    stream >>
    /\ cur = 0
    /\ pc[t] = "health_sleep"
    /\ TimePasses(clock.estimate)
    /\ pc' = Set(pc, t, "start_register")
    /\ cur' = t
    /\ UNCHANGED << running_projects, project, docker, kind, startup_config, exc, stop_exc,
                    stop_caught, ret, target, cmd, rfv_project, rfv_result, events,
                    response, result, cancelled, test_proc >>

\* One probe ends: with a status below 500 the wait is over; after a status
\* of 500 and above or a connection error the loop sleeps.
HealthGetDone(t, answer) ==
    /\ Record(t, "HealthGetDone", << answer >>)
    /\ UNCHANGED << returned, env_files, config_commands, container_cmd, sink_raises,
                    stream >>
    /\ cur = 0
    /\ pc[t] = "health_get"
    /\ ProbeTakes(answer)
    /\ IF ProbeError(answer) # NoExc
         THEN /\ exc' = Set(exc, t, ProbeError(answer))
              /\ pc' = Set(pc, t, "start_except")
              /\ cur' = t
         ELSE IF IsHealthy(answer)
         THEN pc' = Set(pc, t, "start_register") /\ cur' = t /\ UNCHANGED exc
         ELSE pc' = Set(pc, t, "health_poll_sleep") /\ UNCHANGED << cur, exc >>
    /\ UNCHANGED << running_projects, project, docker, kind, startup_config, stop_exc,
                    stop_caught, ret, target, cmd, rfv_project, rfv_result, events,
                    response, result, cancelled, test_proc >>

\* The poll sleep ends: the deadline has passed, or the next probe is sent.
\* While the wait is timed, the clock decides which.
HealthPollWake(t, expired) ==
    /\ Record(t, "HealthPollWake", << expired >>)
    /\ UNCHANGED << returned, env_files, config_commands, container_cmd, sink_raises,
                    stream >>
    /\ cur = 0
    /\ pc[t] = "health_poll_sleep"
    /\ TimePasses(PollInterval)
    /\ clock.on => (expired <=> DeadlinePassed(Elapsed + PollInterval))
    /\ IF expired
         THEN /\ exc' = Set(exc, t, HealthTimeoutError)
              /\ pc' = Set(pc, t, "start_except")
              /\ cur' = t
         ELSE /\ pc' = Set(pc, t, "health_get")
              /\ UNCHANGED << exc, cur >>
    /\ UNCHANGED << running_projects, project, docker, kind, startup_config, stop_exc,
                    stop_caught, ret, target, cmd, rfv_project, rfv_result, events,
                    response, result, cancelled, test_proc >>

\* A start_project that returns the project without entering it in the table
RegisterTableSkipped(tbl, id, p) == tbl

\* `self.running_projects[project_id] = project`
RegisterTable(tbl, id, p) == Set(tbl, id, p)

\* start_project after the health wait: is_running, the table entry, return
StartRegister(t) ==
    /\ Record(t, "StartRegister", << >>)
    /\ UNCHANGED << clock, returned, env_files, config_commands, container_cmd,
                    sink_raises, stream >>
    /\ cur = t
    /\ pc[t] = "start_register"
    /\ project' = Set(project, t, [project[t] EXCEPT !.is_running = TRUE, !.started = TRUE])
    /\ running_projects' = RegisterTable(running_projects, IdOf(t), t)
    /\ pc' = Set(pc, t, "rfv_started")
    /\ UNCHANGED << docker, cur, kind, startup_config, exc, stop_exc, stop_caught, ret,
                    target, cmd, rfv_project, rfv_result, events, response, result,
                    cancelled, test_proc >>

\* start_project's `except Exception as e`: stop_project(project) is called
StartExcept(t) ==
    /\ Record(t, "StartExcept", << >>)
    /\ UNCHANGED << clock, returned, env_files, config_commands, container_cmd,
                    sink_raises, stream >>
    /\ cur = t
    /\ pc[t] = "start_except"
    /\ ret' = Set(ret, t, "start_project")
    /\ target' = Set(target, t, t)
    /\ pc' = Set(pc, t, "stop_project")
    /\ UNCHANGED << running_projects, project, docker, cur, kind, startup_config, exc,
                    stop_exc, stop_caught, cmd, rfv_project, rfv_result, events, response,
                    result, cancelled, test_proc >>

\* ------------------------------------------------------------------ stop_project
\* stop_project up to its await: the teardown command for the project's
\* start method is issued, or the try block ends (with or without an error).
StopProject(t) ==
    /\ Record(t, "StopProject", << >>)
    /\ UNCHANGED << clock, returned, env_files, config_commands, container_cmd,
                    sink_raises, stream >>
    /\ cur = t
    /\ pc[t] = "stop_project"
    /\ LET p == target[t]
           d == StopCommand(ConfigOf(p))
       IN /\ project' = Set(project, p,
                 [project[p] EXCEPT !.stop_calls = @ + 1,
                                    !.teardown_cmds = IF d.cmd # "none" THEN @ + 1 ELSE @])
          /\ IF d.cmd # "none"
               THEN /\ cmd' = Set(cmd, t, d.cmd)
                    /\ pc' = Set(pc, t, "stop_cmd")
                    /\ cur' = 0
                    /\ UNCHANGED stop_exc
               ELSE /\ stop_exc' = Set(stop_exc, t, d.err)
                    /\ pc' = Set(pc, t, "stop_finally")
                    /\ UNCHANGED << cmd, cur >>
    /\ UNCHANGED << running_projects, docker, kind, startup_config, exc, stop_caught, ret,
                    target, rfv_project, rfv_result, events, response, result, cancelled,
                    test_proc >>

\* The teardown command ends with outcome o
StopCmdDone(t, o) ==
    /\ Record(t, "StopCmdDone", << o >>)
    /\ UNCHANGED << clock, returned, env_files, config_commands, container_cmd,
                    sink_raises, stream >>
    /\ cur = 0
    /\ pc[t] = "stop_cmd"
    /\ o \in CmdOutcomes(cmd[t], docker, IdOf(target[t]))
    /\ docker' = IF o.effect THEN ApplyCmd(docker, cmd[t], IdOf(target[t])) ELSE docker
    /\ stop_exc' = Set(stop_exc, t, RunCommandError(cmd[t], o))
    /\ cmd' = Set(cmd, t, "none")
    /\ pc' = Set(pc, t, "stop_finally")
    /\ cur' = t
    /\ UNCHANGED << running_projects, project, kind, startup_config, exc, stop_caught, ret,
                    target, rfv_project, rfv_result, events, response, result, cancelled,
                    test_proc >>

\* stop_project's except and finally clauses; stop_exc then holds the
\* exception that leaves stop_project, if any.
StopFinally(t) ==
    /\ Record(t, "StopFinally", << >>)
    /\ UNCHANGED << clock, returned, env_files, config_commands, container_cmd,
                    sink_raises, stream >>
    /\ cur = t
    /\ pc[t] = "stop_finally"
    /\ LET p == target[t]
           e == stop_exc[t]
           popped == FinallyTable(running_projects, IdOf(p), e)
           leaving == IF popped.err # NoExc THEN popped.err
                      ELSE IF StopCatches(e) THEN NoExc ELSE e
       IN /\ project' = Set(project, p,
                 [project[p] EXCEPT !.is_running = FinallyIsRunning(@, e),
                                    !.stops_done = @ + 1])
          /\ running_projects' = popped.tbl
          /\ stop_exc' = Set(stop_exc, t, leaving)
          /\ stop_caught' = Set(stop_caught, t, IF StopCatches(e) THEN e ELSE NoExc)
    /\ pc' = Set(pc, t, "stop_exit")
    /\ UNCHANGED << docker, cur, kind, startup_config, exc, ret, target, cmd, rfv_project,
                    rfv_result, events, response, result, cancelled, test_proc >>

\* Control leaves stop_project: back into start_project's except clause
\* (which raises "Failed to start project"), into run_functional_
\* verification's finally clause, or to the client that called it.
StopReturn(t) ==
    /\ Record(t, "StopReturn", << >>)
    /\ UNCHANGED << clock, returned, env_files, config_commands, container_cmd,
                    sink_raises, stream >>
    /\ cur = t
    /\ pc[t] = "stop_exit"
    /\ LET e == stop_exc[t]
       IN IF ret[t] = "start_project"
            THEN /\ exc' = Set(exc, t, IF e # NoExc THEN e ELSE FailedToStartError(exc[t]))
                 /\ pc' = Set(pc, t, "rfv_finally")
                 /\ UNCHANGED << events, rfv_result, result, cur >>
            ELSE IF ret[t] = "rfv"
            THEN /\ LET em == Emitted(t, CleanupEndEvents)
                        leaving == IF e # NoExc THEN e
                                   ELSE IF em.err # NoExc THEN em.err ELSE exc[t]
                    IN /\ exc' = Set(exc, t, leaving)
                       /\ events' = Set(events, t, IF e # NoExc THEN events[t] ELSE em.log)
                       /\ rfv_result' = Set(rfv_result, t, leaving)
                 /\ pc' = Set(pc, t, "rfv_exit")
                 /\ UNCHANGED << result, cur >>
            ELSE /\ result' = Set(result, t, IF e = NoExc THEN "returned" ELSE "raised")
                 /\ pc' = Set(pc, t, "done")
                 /\ cur' = 0
                 /\ UNCHANGED << exc, events, rfv_result >>
    /\ stop_exc' = Set(stop_exc, t, NoExc)
    /\ stop_caught' = Set(stop_caught, t, NoExc)
    /\ ret' = Set(ret, t, "none")
    /\ target' = Set(target, t, NoProject)
    /\ UNCHANGED << running_projects, project, docker, kind, startup_config, cmd,
                    rfv_project, response, cancelled, test_proc >>

\* A client of the lifecycle manager calls stop_project on a project that
\* start_project has returned.
BeginStop(t, p) ==
    /\ Record(t, "BeginStop", << p >>)
    /\ UNCHANGED << clock, returned, env_files, config_commands, container_cmd,
                    sink_raises, stream >>
    /\ cur = 0
    /\ pc[t] = "idle"
    /\ project[p].started
    /\ kind' = Set(kind, t, "stop")
    /\ ret' = Set(ret, t, "client")
    /\ target' = Set(target, t, p)
    /\ pc' = Set(pc, t, "stop_project")
    /\ cur' = t
    /\ UNCHANGED << running_projects, project, docker, startup_config, exc, stop_exc,
                    stop_caught, cmd, rfv_project, rfv_result, events, response, result,
                    cancelled, test_proc >>

\* ------------------------------------------------------------------ coordinator, continued
\* start_project returned: `project` is bound, WAITING_HEALTH is emitted
\* twice, then GENERATING_TESTS, and _generate_tests is awaited.
RfvAfterStart(t) ==
    /\ Record(t, "RfvAfterStart", << >>)
    /\ UNCHANGED << clock, returned, env_files, config_commands, container_cmd,
                    sink_raises, stream >>
    /\ cur = t
    /\ pc[t] = "rfv_started"
    /\ rfv_project' = Set(rfv_project, t, t)
    /\ LET em == Emitted(t, AfterStartEvents)
       IN /\ events' = Set(events, t, em.log)
          /\ IF em.err = NoExc
               THEN /\ pc' = Set(pc, t, "generate_tests")
                    /\ cur' = 0
                    /\ UNCHANGED exc
               ELSE /\ exc' = Set(exc, t, em.err)
                    /\ pc' = Set(pc, t, "rfv_finally")
                    /\ UNCHANGED cur
    /\ UNCHANGED << running_projects, project, docker, kind, startup_config, stop_exc,
                    stop_caught, ret, target, cmd, rfv_result, response, result, cancelled,
                    test_proc >>

\* _generate_tests returns (the events of stages 4 and 5, then the argument
\* project.container_name of _execute_tests is evaluated: RunningProject has
\* no such attribute) or raises.
\* The test code it returns ends, when run, the way tp says.
GenerateTestsDone(t, ok, tp) ==
    /\ Record(t, "GenerateTestsDone", << ok, tp >>)
    /\ UNCHANGED << clock, returned, env_files, config_commands, container_cmd,
                    sink_raises, stream >>
    /\ cur = 0
    /\ pc[t] = "generate_tests"
    /\ IF ok
         THEN /\ tp \in TestProcs
              /\ test_proc' = Set(test_proc, t, tp)
              /\ LET em == Emitted(t, AfterGenerationEvents)
                 IN /\ events' = Set(events, t, em.log)
                    /\ exc' = Set(exc, t, IF em.err # NoExc THEN em.err
                                                            ELSE NoContainerNameError)
         ELSE /\ tp = "none"
              /\ exc' = Set(exc, t, TestGenerationError)
              /\ UNCHANGED << events, test_proc >>
    /\ pc' = Set(pc, t, "rfv_finally")
    /\ cur' = t
    /\ UNCHANGED << running_projects, project, docker, kind, startup_config, stop_exc,
                    stop_caught, ret, target, cmd, rfv_project, rfv_result, response,
                    result, cancelled >>

\* run_functional_verification's finally clause: with a bound `project`,
\* CLEANUP is emitted and stop_project is called.
RfvFinally(t) ==
    /\ Record(t, "RfvFinally", << >>)
    /\ UNCHANGED << clock, returned, env_files, config_commands, container_cmd,
                    sink_raises, stream >>
    /\ cur = t
    /\ pc[t] = "rfv_finally"
    /\ IF rfv_project[t] # NoProject /\ Emitted(t, CleanupBeginEvents).err = NoExc
         THEN /\ events' = Set(events, t, Emitted(t, CleanupBeginEvents).log)
              /\ ret' = Set(ret, t, "rfv")
              /\ target' = Set(target, t, rfv_project[t])
              /\ pc' = Set(pc, t, "stop_project")
              /\ UNCHANGED << rfv_result, exc >>
         ELSE IF rfv_project[t] # NoProject
         THEN /\ events' = Set(events, t, Emitted(t, CleanupBeginEvents).log)
              /\ exc' = Set(exc, t, Emitted(t, CleanupBeginEvents).err)
              /\ rfv_result' = Set(rfv_result, t, Emitted(t, CleanupBeginEvents).err)
              /\ pc' = Set(pc, t, "rfv_exit")
              /\ UNCHANGED << ret, target >>
         ELSE /\ rfv_result' = Set(rfv_result, t, exc[t])
              /\ pc' = Set(pc, t, "rfv_exit")
              /\ UNCHANGED << events, ret, target, exc >>
    /\ UNCHANGED << running_projects, project, docker, cur, kind, startup_config,
                    stop_exc, stop_caught, cmd, rfv_project, response, result, cancelled,
                    test_proc >>

\* ------------------------------------------------------------------ request boundary, continued
\* The try/except around run_functional_verification in
\* _analyze_with_verification and _analyze_with_verification_streaming
Boundary(t) ==
    /\ Record(t, "Boundary", << >>)
    /\ UNCHANGED << clock, returned, env_files, config_commands, container_cmd,
                    sink_raises, stream >>
    /\ cur = t
    /\ pc[t] = "rfv_exit"
    /\ LET e == exc[t]
       IN IF e = NoExc
            THEN /\ response' = Set(response, t,
                        [response[t] EXCEPT !.verification =
                            VerificationOf(ExecuteTests(TRUE, test_proc[t]))])
                 /\ UNCHANGED << exc, events >>
            ELSE IF BoundaryCatches(e)
            THEN /\ events' = Set(events, t, Emit(kind[t], events[t], << ERROR >>))
                 /\ response' = Set(response, t,
                        [response[t] EXCEPT !.verification = DegradedVerification(e)])
                 /\ exc' = Set(exc, t, NoExc)
            ELSE UNCHANGED << exc, events, response >>
    /\ pc' = Set(pc, t, "request_exit")
    /\ UNCHANGED << running_projects, project, docker, cur, kind, startup_config, stop_exc,
                    stop_caught, ret, target, cmd, rfv_project, rfv_result, result,
                    cancelled, test_proc >>

\* A run_analysis that sends the end sentinel after its try statement and
\* not in a finally clause: an exception its except clause does not catch
\* passes the sentinel by
RunAnalysisEndElse(e) ==
    IF e = NoExc THEN << COMPLETE, END_SENTINEL >>
    ELSE IF IsException(e) THEN << ERROR, END_SENTINEL >>
    ELSE << >>

\* What run_analysis sends once the analysis has ended with exception e (or
\* none): COMPLETE, or ERROR from `except Exception`, and from its finally
\* clause the end sentinel
RunAnalysisEnd(e) ==
    (IF e = NoExc THEN << COMPLETE >> ELSE IF IsException(e) THEN << ERROR >> ELSE << >>)
        \o << END_SENTINEL >>

\* The request handler ends.  Plain: _analyze_with_verification returns the
\* response or raises.  Stream: run_analysis sends COMPLETE with the
\* response, or ERROR for an exception, and always the end sentinel.
RequestExit(t) ==
    /\ Record(t, "RequestExit", << >>)
    /\ UNCHANGED << clock, returned, env_files, config_commands, container_cmd,
                    sink_raises, stream >>
    /\ cur = t
    /\ pc[t] = "request_exit"
    /\ LET e == exc[t]
       IN IF kind[t] = "stream"
            THEN /\ events' = Set(events, t, events[t] \o RunAnalysisEnd(e))
                 /\ result' = Set(result, t, IF e = CancelledError THEN "cancelled"
                                                                   ELSE "returned")
            ELSE /\ result' = Set(result, t, IF e = NoExc THEN "returned" ELSE "raised")
                 /\ UNCHANGED events
    /\ pc' = Set(pc, t, "done")
    /\ cur' = 0
    /\ UNCHANGED << running_projects, project, docker, kind, startup_config, exc, stop_exc,
                    stop_caught, ret, target, cmd, rfv_project, rfv_result, response,
                    cancelled, test_proc >>

\* ------------------------------------------------------------------ cancellation
\* The stream's consumer goes away: event_generator's finally clause calls
\* task.cancel() and CancelledError is thrown into the await the background
\* task is suspended in.  A child process that was awaited is not killed:
\* its effect may or may not take place.
Cancel(t, effect) ==
    /\ Record(t, "Cancel", << effect >>)
    /\ UNCHANGED << clock, returned, env_files, config_commands, container_cmd,
                    sink_raises >>
    /\ stream.on => stream.consumer = "reading"
    /\ stream' = IF stream.on THEN [stream EXCEPT !.consumer = "closed"] ELSE stream
    /\ cur = 0
    /\ kind[t] = "stream"
    /\ pc[t] \in AwaitPcs
    /\ ~cancelled[t]
    /\ cancelled' = Set(cancelled, t, TRUE)
    /\ cur' = t
    /\ cmd' = Set(cmd, t, "none")
    /\ IF pc[t] \in {"start_cmd", "stop_cmd"}
         THEN LET id == IF pc[t] = "start_cmd" THEN IdOf(t) ELSE IdOf(target[t])
              IN docker' = IF effect /\ [exit |-> "fail", effect |-> TRUE]
                                            \in CmdOutcomes(cmd[t], docker, id)
                             THEN ApplyCmd(docker, cmd[t], id) ELSE docker
         ELSE effect = FALSE /\ UNCHANGED docker
    /\ IF pc[t] = "analyze_code"
         THEN /\ exc' = Set(exc, t, CancelledError)
              /\ pc' = Set(pc, t, "request_exit")
              /\ UNCHANGED stop_exc
         ELSE IF pc[t] = "stop_cmd"
         THEN /\ stop_exc' = Set(stop_exc, t, CancelledError)
              /\ pc' = Set(pc, t, "stop_finally")
              /\ UNCHANGED exc
         ELSE /\ exc' = Set(exc, t, CancelledError)
              /\ pc' = Set(pc, t, "rfv_finally")
              /\ UNCHANGED stop_exc
    /\ UNCHANGED << running_projects, project, kind, startup_config, stop_caught, ret,
                    target, rfv_project, rfv_result, events, response, result, test_proc >>

\* ------------------------------------------------------------------ specification
Next ==
    \E t \in Tasks :
        \/ \E k \in {"plain", "stream"}, ok \in BOOLEAN : BeginRequest(t, k, ok)
        \/ \E ok \in BOOLEAN : AnalyzeCodeDone(t, ok)
        \/ \E c \in Configs : AnalyzeStartupDone(t, c)
        \/ AnalyzeStartupFails(t)
        \/ \E id \in ProjectIds, f \in BOOLEAN : StartProject(t, id, f)
        \/ \E o \in Outcomes : StartCmdDone(t, o)
        \/ HealthSleepDone(t)
        \/ \E a \in ProbeAnswers : HealthGetDone(t, a)
        \/ \E x \in BOOLEAN : HealthPollWake(t, x)
        \/ StartRegister(t)
        \/ StartExcept(t)
        \/ StopProject(t)
        \/ \E o \in Outcomes : StopCmdDone(t, o)
        \/ StopFinally(t)
        \/ StopReturn(t)
        \/ RfvAfterStart(t)
        \/ \E ok \in BOOLEAN, tp \in TestProcs \cup {"none"} : GenerateTestsDone(t, ok, tp)
        \/ RfvFinally(t)
        \/ Boundary(t)
        \/ RequestExit(t)
        \/ \E e \in BOOLEAN : Cancel(t, e)
        \/ \E p \in Tasks : BeginStop(t, p)

Spec == Init /\ [][Next]_vars

\* ------------------------------------------------------------------ clients of start_project
\* The configs a client passes: those with the attributes start_project reads
ClientConfigs == {c \in Configs : c.has_working_dir /\ ~IsUnknown(c)}

\* A client calls start_project(project_dir, c) on the lifecycle manager.
BeginStart(t, c) ==
    /\ Record(t, "BeginStart", << c >>)
    /\ UNCHANGED << clock, returned, env_files, config_commands, container_cmd,
                    sink_raises, stream >>
    /\ cur = 0
    /\ pc[t] = "idle"
    /\ kind' = Set(kind, t, "start")
    /\ startup_config' = Set(startup_config, t, c)
    /\ pc' = Set(pc, t, "start_project")
    /\ cur' = t
    /\ UNCHANGED << running_projects, project, docker, exc, stop_exc, stop_caught, ret,
                    target, cmd, rfv_project, rfv_result, events, response, result,
                    cancelled, test_proc >>

\* start_project returns the RunningProject to the client, or raises
\* "Failed to start project" to it.
StartReturns(t) ==
    /\ Record(t, "StartReturns", << >>)
    /\ UNCHANGED << clock, returned, env_files, config_commands, container_cmd,
                    sink_raises, stream >>
    /\ cur = t
    /\ kind[t] = "start"
    /\ pc[t] \in {"rfv_started", "rfv_finally"}
    /\ result' = Set(result, t, IF pc[t] = "rfv_started" THEN "returned" ELSE "raised")
    /\ pc' = Set(pc, t, "done")
    /\ cur' = 0
    /\ UNCHANGED << running_projects, project, docker, kind, startup_config, exc, stop_exc,
                    stop_caught, ret, target, cmd, rfv_project, rfv_result, events,
                    response, cancelled, test_proc >>

NextStart ==
    \E t \in Tasks :
        \/ \E c \in ClientConfigs : BeginStart(t, c)
        \/ \E id \in ProjectIds, f \in BOOLEAN : StartProject(t, id, f)
        \/ \E o \in Outcomes : StartCmdDone(t, o)
        \/ HealthSleepDone(t)
        \/ \E a \in ProbeAnswers : HealthGetDone(t, a)
        \/ \E x \in BOOLEAN : HealthPollWake(t, x)
        \/ StartRegister(t)
        \/ StartExcept(t)
        \/ StopProject(t)
        \/ \E o \in Outcomes : StopCmdDone(t, o)
        \/ StopFinally(t)
        \/ StopReturn(t)
        \/ StartReturns(t)

SpecStart == Init /\ [][NextStart]_vars

\* ------------------------------------------------------------------ the timed health wait
\* One client calls start_project while the clock runs; the config's
\* estimated_startup_time is one of Estimates.
TimedClient == 1

InitHealth ==
    /\ InitProgram
    /\ trace = NoTrace
    /\ clock \in {[NoClock EXCEPT !.on = TRUE, !.estimate = e] : e \in Estimates}
    /\ NoInputs
    /\ stream = NoStream

NextHealth ==
    \E t \in {TimedClient} :
        \/ \E c \in ClientConfigs : BeginStart(t, c)
        \/ \E id \in ProjectIds, f \in BOOLEAN : StartProject(t, id, f)
        \/ \E o \in Outcomes : StartCmdDone(t, o)
        \/ HealthSleepDone(t)
        \/ \E a \in ProbeAnswers : HealthGetDone(t, a)
        \/ \E x \in BOOLEAN : HealthPollWake(t, x)
        \/ StartRegister(t)
        \/ StartExcept(t)
        \/ StopProject(t)
        \/ \E o \in Outcomes : StopCmdDone(t, o)
        \/ StopFinally(t)
        \/ StopReturn(t)
        \/ StartReturns(t)

SpecHealth == InitHealth /\ [][NextHealth]_vars

\* ------------------------------------------------------------------ the start variants' inputs
\* One client calls start_project on a working directory that holds any of
\* the three environment files, with a config whose install_command and
\* start_command are empty or given.
InitVariants ==
    /\ InitProgram
    /\ trace = NoTrace
    /\ clock = NoClock
    /\ stream = NoStream
    /\ sink_raises = [t \in Tasks |-> {}]
    /\ \E f \in [ env : {NoFile, "own settings"},
                   example : {NoFile, "example settings"},
                   compose_example : {NoFile, "compose example settings"} ] :
          env_files = [t \in Tasks |-> IF t = TimedClient THEN f ELSE NoEnvFiles]
    /\ \E cc \in [ install_command : {"", "npm ci"},
                    start_command : {"", "npm run start"} ] :
          config_commands = [t \in Tasks |-> IF t = TimedClient THEN cc ELSE NoCommands]

SpecVariants == InitVariants /\ [][NextHealth]_vars

\* ------------------------------------------------------------------ the streaming endpoint's queue
\* A queue that hands out the newest event first
QueuePutFront(q, event) == << event >> \o q

\* asyncio.Queue.put_nowait: the queue is first in, first out
QueuePut(q, event) == Append(q, event)

\* format_sse: the frame of an event, here of its stage
format_sse(event) == "data: {\"stage\": \"" \o event \o "\"}\n\n"

\* send_event hands `event_queue.put_nowait, event` to call_soon_threadsafe:
\* the loop runs these callbacks between the steps of its tasks, in the
\* order in which they were scheduled.  events[t] holds what send_event was
\* called with, and stream.delivered says how many of them have been put.
LoopRunsCallback(t) ==
    /\ Record(t, "LoopRunsCallback", << >>)
    /\ UNCHANGED << clock, returned, env_files, config_commands, container_cmd,
                    sink_raises >>
    /\ stream.on
    /\ cur = 0
    /\ kind[t] = "stream"
    /\ stream.delivered < Len(events[t])
    /\ stream' = [stream EXCEPT !.queue = QueuePut(@, events[t][stream.delivered + 1]),
                                !.delivered = @ + 1]
    /\ UNCHANGED << running_projects, project, docker, cur, kind, pc, startup_config, exc,
                    stop_exc, stop_caught, ret, target, cmd, rfv_project, rfv_result, events,
                    response, result, cancelled, test_proc >>

\* event_generator's loop: `event = await event_queue.get()`, then the end
\* of the stream at the sentinel (the finally clause cancels a task that
\* has finished) or the yield of the event's frame
ConsumerGets(t) ==
    /\ Record(t, "ConsumerGets", << >>)
    /\ UNCHANGED << clock, returned, env_files, config_commands, container_cmd,
                    sink_raises >>
    /\ stream.on
    /\ cur = 0
    /\ kind[t] = "stream"
    /\ stream.consumer = "reading"
    /\ stream.queue # << >>
    /\ stream' = IF Head(stream.queue) = END_SENTINEL
                   THEN [stream EXCEPT !.queue = Tail(@), !.consumer = "ended"]
                   ELSE [stream EXCEPT !.queue = Tail(@),
                                       !.yielded = Append(@, format_sse(Head(stream.queue)))]
    /\ UNCHANGED << running_projects, project, docker, cur, kind, pc, startup_config, exc,
                    stop_exc, stop_caught, ret, target, cmd, rfv_project, rfv_result, events,
                    response, result, cancelled, test_proc >>

\* One streamed request and its consumer, which reads until the stream ends
\* or goes away (Cancel).  The startup analysis answers with an npm config,
\* as the dataclass declares it or with working_dir and stop_command, or
\* with "unknown".
InitStream ==
    /\ InitProgram
    /\ trace = NoTrace
    /\ clock = NoClock
    /\ NoInputs
    /\ stream = [NoStream EXCEPT !.on = TRUE, !.consumer = "reading"]

NextStream ==
    \E t \in {WithSink} :
        \/ \E ok \in BOOLEAN : BeginRequest(t, "stream", ok)
        \/ \E ok \in BOOLEAN : AnalyzeCodeDone(t, ok)
        \/ \E c \in {c \in Configs : /\ c.start_method \in {"npm", "unknown"}
                                      /\ c.stop_command \in {NoAttr, "stop.sh"}} :
              AnalyzeStartupDone(t, c)
        \/ AnalyzeStartupFails(t)
        \/ \E id \in ProjectIds, f \in BOOLEAN : StartProject(t, id, f)
        \/ \E o \in Outcomes : StartCmdDone(t, o)
        \/ HealthSleepDone(t)
        \/ \E a \in ProbeAnswers : HealthGetDone(t, a)
        \/ \E x \in BOOLEAN : HealthPollWake(t, x)
        \/ StartRegister(t)
        \/ StartExcept(t)
        \/ StopProject(t)
        \/ \E o \in Outcomes : StopCmdDone(t, o)
        \/ StopFinally(t)
        \/ StopReturn(t)
        \/ RfvAfterStart(t)
        \/ \E ok \in BOOLEAN, tp \in TestProcs \cup {"none"} : GenerateTestsDone(t, ok, tp)
        \/ RfvFinally(t)
        \/ Boundary(t)
        \/ RequestExit(t)
        \/ \E e \in BOOLEAN : Cancel(t, e)
        \/ LoopRunsCallback(t)
        \/ ConsumerGets(t)

SpecStream == InitStream /\ [][NextStream]_vars

\* The loop runs every callback that is ready, and the consumer keeps
\* reading while it is there.
SpecStreamFair ==
    /\ SpecStream
    /\ WF_vars(LoopRunsCallback(WithSink))
    /\ WF_vars(ConsumerGets(WithSink))

\* ------------------------------------------------------------------ a client with a sink of its own
\* A client calls run_functional_verification(..., on_progress=sink) on a
\* TestRunner: the first ANALYZING_STARTUP event is emitted and
\* analyze_startup_method is awaited.
BeginVerification(t) ==
    /\ Record(t, "BeginVerification", << >>)
    /\ UNCHANGED << clock, returned, env_files, config_commands, container_cmd,
                    sink_raises, stream >>
    /\ cur = 0
    /\ pc[t] = "idle"
    /\ kind' = Set(kind, t, "verify")
    /\ events' = Set(events, t, << ANALYZING_STARTUP >>)
    /\ IF ANALYZING_STARTUP \in sink_raises[t]
         THEN /\ exc' = Set(exc, t, SinkError)
              /\ pc' = Set(pc, t, "rfv_finally")
              /\ cur' = t
         ELSE /\ pc' = Set(pc, t, "analyze_startup")
              /\ UNCHANGED << exc, cur >>
    /\ UNCHANGED << running_projects, project, docker, startup_config, stop_exc,
                    stop_caught, ret, target, cmd, rfv_project, rfv_result, response,
                    result, cancelled, test_proc >>

\* run_functional_verification returns to the client or raises to it
VerificationReturns(t) ==
    /\ Record(t, "VerificationReturns", << >>)
    /\ UNCHANGED << clock, returned, env_files, config_commands, container_cmd,
                    sink_raises, stream >>
    /\ cur = t
    /\ kind[t] = "verify"
    /\ pc[t] = "rfv_exit"
    /\ result' = Set(result, t, IF exc[t] = NoExc THEN "returned" ELSE "raised")
    /\ pc' = Set(pc, t, "done")
    /\ cur' = 0
    /\ UNCHANGED << running_projects, project, docker, kind, startup_config, exc, stop_exc,
                    stop_caught, ret, target, cmd, rfv_project, rfv_result, events,
                    response, cancelled, test_proc >>

\* The sink raises on no stage, on one stage, or on every stage.
InitSink ==
    /\ InitProgram
    /\ trace = NoTrace
    /\ clock = NoClock
    /\ stream = NoStream
    /\ env_files = [t \in Tasks |-> NoEnvFiles]
    /\ config_commands = [t \in Tasks |-> NoCommands]
    /\ LET stages == { ANALYZING_STARTUP, STARTING_PROJECT, WAITING_HEALTH,
                       GENERATING_TESTS, RUNNING_TESTS, CLEANUP }
       IN \E r \in {{}, stages} \cup {{st} : st \in stages} :
             sink_raises = [t \in Tasks |-> IF t = WithSink THEN r ELSE {}]

NextSink ==
    \E t \in {WithSink} :
        \/ BeginVerification(t)
        \/ \E c \in Configs : AnalyzeStartupDone(t, c)
        \/ AnalyzeStartupFails(t)
        \/ \E id \in ProjectIds, f \in BOOLEAN : StartProject(t, id, f)
        \/ \E o \in Outcomes : StartCmdDone(t, o)
        \/ HealthSleepDone(t)
        \/ \E a \in ProbeAnswers : HealthGetDone(t, a)
        \/ \E x \in BOOLEAN : HealthPollWake(t, x)
        \/ StartRegister(t)
        \/ StartExcept(t)
        \/ StopProject(t)
        \/ \E o \in Outcomes : StopCmdDone(t, o)
        \/ StopFinally(t)
        \/ StopReturn(t)
        \/ RfvAfterStart(t)
        \/ \E ok \in BOOLEAN, tp \in TestProcs \cup {"none"} : GenerateTestsDone(t, ok, tp)
        \/ RfvFinally(t)
        \/ VerificationReturns(t)

SpecSink == InitSink /\ [][NextSink]_vars

\* ------------------------------------------------------------------ clients of the executors
\* The commands the lifecycle manager hands to _run_command
Commands == { "compose_up", "docker_build", "docker_run", "native_run",
              "compose_down", "docker_rm", "stop_command" }

\* An await of proc.communicate() that is not wrapped in asyncio.wait_for
NoTimeout == 0

\* The timeout, in seconds, under which the child process of a command is
\* awaited: the `timeout=` arguments of the calls of _run_command, and in
\* _execute_tests the wait_for around the test process only.
CommandTimeout(c) ==
    IF c \in {"compose_up", "docker_build", "native_run"} THEN STARTUP_TIMEOUT
    ELSE IF c \in {"compose_down", "docker_exec_test"} THEN 60
    ELSE IF c \in {"docker_run", "docker_run_noimage", "docker_rm", "stop_command"} THEN 30
    ELSE NoTimeout

\* A child process: whether it exits at all, and if so its return code and
\* what it wrote
Procs ==
    [ exits : {TRUE}, returncode : {0, 1}, stdout : {"", "out"}, stderr : {"", "err"} ]
    \cup { [ exits |-> FALSE, returncode |-> 0, stdout |-> "", stderr |-> "" ] }

\* A child process as the Outcomes of the lifecycle model see it
ExitOf(p) == IF ~p.exits THEN "timeout" ELSE IF p.returncode = 0 THEN "ok" ELSE "fail"

\* _run_command(c, cwd, timeout) on child process p: the tuple
\* (stdout, stderr) it returns or the exception it raises, and whether
\* proc.kill() was called.  The return code is read for the warning only.
RunCommand(c, p) ==
    LET err == RunCommandError(c, [exit |-> ExitOf(p)])
    IN [ called |-> TRUE, cmd |-> c, proc |-> p,
         raised |-> err,
         value |-> IF err = NoExc THEN << p.stdout, p.stderr >> ELSE << >>,
         killed |-> ~p.exits /\ CommandTimeout(c) # NoTimeout ]

\* A client calls _run_command(c, cwd, timeout): the child process is
\* spawned and awaited.
BeginRunCommand(t, c) ==
    /\ Record(t, "BeginRunCommand", << c >>)
    /\ UNCHANGED << clock, returned, env_files, config_commands, container_cmd,
                    sink_raises, stream >>
    /\ cur = 0
    /\ pc[t] = "idle"
    /\ kind' = Set(kind, t, "command")
    /\ cmd' = Set(cmd, t, c)
    /\ pc' = Set(pc, t, "run_cmd")
    /\ UNCHANGED << running_projects, project, docker, cur, startup_config, exc, stop_exc,
                    stop_caught, ret, target, rfv_project, rfv_result, events, response,
                    result, cancelled, test_proc >>

\* The wait for child process p ends: it has exited, or the timeout has
\* passed.
RunCommandDone(t, p) ==
    /\ Record(t, "RunCommandDone", << p >>)
    /\ UNCHANGED << clock, env_files, config_commands, container_cmd, sink_raises,
                    stream >>
    /\ cur = 0
    /\ kind[t] = "command"
    /\ pc[t] = "run_cmd"
    /\ p.exits \/ CommandTimeout(cmd[t]) # NoTimeout
    /\ returned' = Set(returned, t, RunCommand(cmd[t], p))
    /\ result' = Set(result, t, IF RunCommand(cmd[t], p).raised = NoExc THEN "returned"
                                                                       ELSE "raised")
    /\ cmd' = Set(cmd, t, "none")
    /\ pc' = Set(pc, t, "done")
    /\ UNCHANGED << running_projects, project, docker, cur, kind, startup_config, exc,
                    stop_exc, stop_caught, ret, target, rfv_project, rfv_result, events,
                    response, cancelled, test_proc >>

\* A client calls _execute_tests(test_code, config, container_name): the
\* test file is written and `docker cp` is spawned and awaited.
BeginExecuteTests(t) ==
    /\ Record(t, "BeginExecuteTests", << >>)
    /\ UNCHANGED << clock, returned, env_files, config_commands, container_cmd,
                    sink_raises, stream >>
    /\ cur = 0
    /\ pc[t] = "idle"
    /\ kind' = Set(kind, t, "tests")
    /\ cmd' = Set(cmd, t, "docker_cp")
    /\ pc' = Set(pc, t, "run_cmd")
    /\ UNCHANGED << running_projects, project, docker, cur, startup_config, exc, stop_exc,
                    stop_caught, ret, target, rfv_project, rfv_result, events, response,
                    result, cancelled, test_proc >>

\* A copy of the test file that is taken for done whatever `docker cp` says
CopyFailedNever(p) == FALSE

\* `if proc.returncode != 0` after `docker cp`
CopyFailed(p) == p.returncode # 0

\* The result dict _execute_tests has on its way out through the finally
\* clause, given the `docker cp` process and how the test process ends
TestsResult(copy, tp) ==
    [ called |-> TRUE, cmd |-> "docker_exec_test", copy |-> copy, proc |-> tp,
      raised |-> NoExc, value |-> ExecuteTests(~CopyFailed(copy), tp),
      killed |-> ~CopyFailed(copy) /\ tp = "timeout" ]

\* `docker cp` has exited: with a non-zero return code the result is "Failed
\* to copy", otherwise `docker exec ... node` is spawned and awaited.  What
\* the process wrote is not read.
CopyDone(t, p) ==
    /\ Record(t, "CopyDone", << p >>)
    /\ UNCHANGED << clock, env_files, config_commands, container_cmd, sink_raises,
                    stream >>
    /\ cur = 0
    /\ kind[t] = "tests"
    /\ pc[t] = "run_cmd"
    /\ cmd[t] = "docker_cp"
    /\ p.exits \/ CommandTimeout(cmd[t]) # NoTimeout
    /\ LET copy == [p EXCEPT !.stdout = "", !.stderr = ""]
       IN IF CopyFailed(p)
            THEN /\ returned' = Set(returned, t, TestsResult(copy, "none"))
                 /\ cmd' = Set(cmd, t, "docker_exec_rm")
            ELSE /\ returned' = Set(returned, t, [called |-> FALSE, copy |-> copy])
                 /\ cmd' = Set(cmd, t, "docker_exec_test")
    /\ UNCHANGED << running_projects, project, docker, cur, kind, pc, startup_config, exc,
                    stop_exc, stop_caught, ret, target, rfv_project, rfv_result, events,
                    response, result, cancelled, test_proc >>

\* The wait for the test process ends the way tp says; the finally clause
\* spawns `docker exec ... rm -f` and awaits it.
TestDone(t, tp) ==
    /\ Record(t, "TestDone", << tp >>)
    /\ UNCHANGED << clock, env_files, config_commands, container_cmd, sink_raises,
                    stream >>
    /\ cur = 0
    /\ kind[t] = "tests"
    /\ pc[t] = "run_cmd"
    /\ cmd[t] = "docker_exec_test"
    /\ returned' = Set(returned, t, TestsResult(returned[t].copy, tp))
    /\ test_proc' = Set(test_proc, t, tp)
    /\ cmd' = Set(cmd, t, "docker_exec_rm")
    /\ UNCHANGED << running_projects, project, docker, cur, kind, pc, startup_config, exc,
                    stop_exc, stop_caught, ret, target, rfv_project, rfv_result, events,
                    response, result, cancelled >>

\* The removal of the test file has exited: _execute_tests returns
TestCleanupDone(t, p) ==
    /\ Record(t, "TestCleanupDone", << p >>)
    /\ UNCHANGED << clock, returned, env_files, config_commands, container_cmd,
                    sink_raises, stream >>
    /\ cur = 0
    /\ kind[t] = "tests"
    /\ pc[t] = "run_cmd"
    /\ cmd[t] = "docker_exec_rm"
    /\ p.exits \/ CommandTimeout(cmd[t]) # NoTimeout
    /\ result' = Set(result, t, "returned")
    /\ cmd' = Set(cmd, t, "none")
    /\ pc' = Set(pc, t, "done")
    /\ UNCHANGED << running_projects, project, docker, cur, kind, startup_config, exc,
                    stop_exc, stop_caught, ret, target, rfv_project, rfv_result, events,
                    response, cancelled, test_proc >>

NextCommands ==
    \E t \in Tasks :
        \/ \E c \in Commands : BeginRunCommand(t, c)
        \/ \E p \in Procs : RunCommandDone(t, p)
        \/ BeginExecuteTests(t)
        \/ \E p \in Procs : CopyDone(t, p)
        \/ \E tp \in TestProcs : TestDone(t, tp)
        \/ \E p \in Procs : TestCleanupDone(t, p)

SpecCommands == Init /\ [][NextCommands]_vars

\* ------------------------------------------------------------------ the run without a sink
\* The request of the first run made again through the plain endpoint, once
\* the first run is over: _analyze_with_verification, which passes no
\* on_progress.  It constructs its own TestRunner, hence an empty table,
\* and meets the backend in the state the first run met it in.
BeginReplay(t, extract_ok) ==
    /\ Record(t, "BeginRequest", << extract_ok >>)
    /\ UNCHANGED << clock, returned, env_files, config_commands, container_cmd,
                    sink_raises, stream >>
    /\ cur = 0
    /\ pc[t] = "idle"
    /\ pc[WithSink] = "done"
    /\ kind' = Set(kind, t, "plain")
    /\ running_projects' = [i \in ProjectIds |-> NoProject]
    /\ docker' = {}
    /\ IF extract_ok
         THEN /\ pc' = Set(pc, t, "analyze_code")
              /\ UNCHANGED << exc, cur >>
         ELSE /\ exc' = Set(exc, t, ZipExtractionError)
              /\ pc' = Set(pc, t, "request_exit")
              /\ cur' = t
    /\ UNCHANGED << project, startup_config, stop_exc, stop_caught, ret, target, cmd,
                    rfv_project, rfv_result, events, response, result, cancelled, test_proc >>

InitReplay ==
    /\ InitProgram
    /\ trace = [NoTrace EXCEPT !.on = TRUE]
    /\ clock = NoClock
    /\ NoInputs
    /\ stream = NoStream

NextReplay ==
    \/ \E ok \in BOOLEAN : BeginRequest(WithSink, "stream", ok)
    \/ \E ok \in BOOLEAN : BeginReplay(WithoutSink, ok)
    \/ \E t \in {WithSink, WithoutSink} :
        \/ \E ok \in BOOLEAN : AnalyzeCodeDone(t, ok)
        \/ \E c \in Configs : AnalyzeStartupDone(t, c)
        \/ AnalyzeStartupFails(t)
        \/ \E id \in ProjectIds, f \in BOOLEAN : StartProject(t, id, f)
        \/ \E o \in Outcomes : StartCmdDone(t, o)
        \/ HealthSleepDone(t)
        \/ \E a \in ProbeAnswers : HealthGetDone(t, a)
        \/ \E x \in BOOLEAN : HealthPollWake(t, x)
        \/ StartRegister(t)
        \/ StartExcept(t)
        \/ StopProject(t)
        \/ \E o \in Outcomes : StopCmdDone(t, o)
        \/ StopFinally(t)
        \/ StopReturn(t)
        \/ RfvAfterStart(t)
        \/ \E ok \in BOOLEAN, tp \in TestProcs \cup {"none"} : GenerateTestsDone(t, ok, tp)
        \/ RfvFinally(t)
        \/ Boundary(t)
        \/ RequestExit(t)

SpecReplay == InitReplay /\ [][NextReplay]_vars

\* ------------------------------------------------------------------ properties
RfvExited(t) == rfv_result[t] # Pending
RfvRaised(t) == rfv_result[t].cls \notin {"Pending", "None", "CancelledError"}
InTable(p) == \E i \in ProjectIds : running_projects[i] = p
Provisioned(p) == <<"compose", IdOf(p)>> \in docker \/ <<"container", IdOf(p)>> \in docker

\* start_project has raised to run_functional_verification, which is about
\* to run its finally clause
StartFailureObserved(t) ==
    /\ pc[t] = "rfv_finally"
    /\ project[t].created
    /\ ~project[t].started
    /\ IsException(exc[t])

\* C1: once run_functional_verification has returned or raised, the project
\* the run created is not in running_projects, whichever stage failed.
C1_GuaranteedCleanup ==
    \A t \in Tasks : RfvExited(t) => ~InTable(t)

C1_Witness ==
    \E t \in Tasks :
        /\ rfv_result[t] = TestGenerationError
        /\ project[t].started
        /\ project[t].stops_done >= 1
        /\ ~InTable(t)

\* C2: when start_project fails, stop_project has been invoked on the
\* project and, at the moment the caller sees the failure, no container or
\* compose namespace of that project_id is still provisioned.
C2_NoOrphanAfterFailedStart ==
    \A t \in Tasks :
        StartFailureObserved(t) => project[t].stop_calls >= 1 /\ ~Provisioned(t)

\* C3: a background task that was cancelled has called stop_project on the
\* project it provisioned by the time it exits.
C3_CleanupOnDisconnect ==
    \A t \in Tasks :
        (pc[t] = "done" /\ cancelled[t] /\ project[t].provisioned)
            => project[t].stop_calls >= 1

\* The exceptions start_project wraps in "Failed to start project"
StartErrors ==
    { NoWorkingDirError, ComposeNotFoundError, HealthTimeoutError }
    \cup { UnknownMethodError(m) : m \in StartMethods }
    \cup { CommandTimeoutError(c) :
             c \in {"compose_up", "docker_build", "docker_run", "docker_run_noimage",
                    "native_run"} }

\* C4: no exception of the teardown leaves stop_project, and none takes the
\* place of the run's own error: a failed start reaches the caller as
\* "Failed to start project: <the start's error>", and a run whose project
\* started ends with the error of its own stage.
C4_StopNeverFailsOutward ==
    \A t \in Tasks :
        /\ pc[t] = "stop_exit" => ~IsException(stop_exc[t])
        /\ StartFailureObserved(t)
             => \E e \in StartErrors : exc[t] = FailedToStartError(e)
        /\ (RfvExited(t) /\ project[t].started)
             => rfv_result[t] \in {NoContainerNameError, TestGenerationError, CancelledError}

C4_Witness ==
    \E t \in Tasks :
        /\ pc[t] = "stop_exit"
        /\ stop_caught[t] \in {CommandTimeoutError("docker_rm"), NoWorkingDirError}
        /\ stop_exc[t] = NoExc

\* C5: when stop_project(project) ends, also after a teardown that raised,
\* project.is_running is false and running_projects has no entry under
\* project.project_id.
C5_StoppedAfterStop ==
    \A t \in Tasks :
        pc[t] = "stop_exit"
            => /\ ~project[target[t]].is_running
               /\ running_projects[IdOf(target[t])] = NoProject

C5_Witness ==
    \E t \in Tasks :
        /\ pc[t] = "stop_exit"
        /\ project[target[t]].started
        /\ stop_caught[t] = CommandTimeoutError("compose_down")

\* C6: a stop_project on a project on which an earlier stop_project has
\* ended raises no error and leaves running_projects as it was.
C6_StopIdempotent ==
    [][ \A t \in Tasks :
          ( /\ pc[t] = "stop_finally"
            /\ pc'[t] = "stop_exit"
            /\ project[target[t]].stops_done >= 1 )
          => /\ running_projects' = running_projects
             /\ ~IsException(stop_exc'[t]) ]_vars

C6_Witness ==
    \E t \in Tasks :
        /\ pc[t] = "stop_exit"
        /\ kind[t] = "stop"
        /\ project[target[t]].started
        /\ project[target[t]].stops_done = 2
        /\ project[target[t]].teardown_cmds = 2

\* C7: a project is out of running_projects from the moment its teardown
\* begins, and a further stop_project on it issues no teardown command.
C7_RemovedWhenTeardownBegins ==
    /\ \A t \in Tasks :
         pc[t] = "stop_cmd" => running_projects[IdOf(target[t])] # target[t]
    /\ \A p \in Tasks : project[p].teardown_cmds <= 1

\* C8 as stated: with start_method "unknown", run_functional_verification
\* calls no start_project and returns an outcome instead of raising.
C8_UnknownReturnsOutcome ==
    \A t \in Tasks :
        (IsUnknown(startup_config[t]) /\ RfvExited(t))
            => ~project[t].created /\ rfv_result[t] = NoExc

\* C8 as amended: with start_method "unknown", run_functional_verification
\* calls no start_project and raises "Could not determine how to start the
\* project"; the request boundary returns the response with
\* tests_passed = FALSE and that text in the log.
C8_UnknownRefused ==
    \A t \in Tasks :
        startup_config[t].start_method = "unknown"
            => /\ ~project[t].created
               /\ docker = {}
               /\ RfvExited(t) => rfv_result[t] = UnknownStartupError
               /\ pc[t] \in {"request_exit", "done"}
                    => /\ exc[t] = NoExc
                       /\ response[t].verification.present
                       /\ ~response[t].verification.tests_passed
                       /\ response[t].verification.log =
                              "Error: Could not determine how to start the project"
               /\ pc[t] = "done" => result[t] = "returned"

C8_Witness ==
    \E t \in Tasks :
        /\ startup_config[t].start_method = "unknown"
        /\ pc[t] = "done"
        /\ result[t] = "returned"
        /\ response[t].verification.log = "Error: Could not determine how to start the project"

\* C9: an exception that leaves run_functional_verification is caught at the
\* request boundary: the boundary returns normally, the response keeps its
\* feature analysis, and its verification has tests_passed = FALSE and the
\* error text in the log.
C9_BoundaryConvertsExceptions ==
    \A t \in Tasks :
        (RfvRaised(t) /\ pc[t] \in {"request_exit", "done"})
            => /\ exc[t] = NoExc
               /\ response[t].has_analysis
               /\ response[t].verification.present
               /\ ~response[t].verification.tests_passed
               /\ response[t].verification.log = "Error: " \o rfv_result[t].msg
               /\ pc[t] = "done" => result[t] = "returned"

C9_Witness ==
    \E t \in Tasks :
        /\ pc[t] = "done"
        /\ rfv_result[t] = NoContainerNameError
        /\ result[t] = "returned"
        /\ response[t].verification.log = "Error: " \o NoContainerNameError.msg

\* The order of the coordinator's stages
StageRank(s) ==
    CASE s = ANALYZING_STARTUP -> 1
      [] s = STARTING_PROJECT -> 2
      [] s = WAITING_HEALTH -> 3
      [] s = GENERATING_TESTS -> 4
      [] s = RUNNING_TESTS -> 5
      [] s = CLEANUP -> 6
      [] OTHER -> 0

\* C10: the coordinator's stages reach the progress sink in the order
\* ANALYZING_STARTUP, STARTING_PROJECT, WAITING_HEALTH, GENERATING_TESTS,
\* RUNNING_TESTS, CLEANUP: no event of an earlier stage follows an event of
\* a later one.
C10_StageOrder ==
    \A t \in Tasks :
        \A i, j \in DOMAIN events[t] :
            (i < j /\ StageRank(events[t][i]) > 0 /\ StageRank(events[t][j]) > 0)
                => StageRank(events[t][i]) <= StageRank(events[t][j])

C10_Witness ==
    \E t \in Tasks :
        /\ pc[t] = "done"
        /\ \E i, j \in DOMAIN events[t] :
              i < j /\ events[t][i] = RUNNING_TESTS /\ events[t][j] = CLEANUP
        /\ \E i \in DOMAIN events[t] : events[t][i] = STARTING_PROJECT

\* The events of the verification run in a stream: the six stages and ERROR
IsVerificationEvent(s) == StageRank(s) > 0 \/ s = ERROR
VerificationEvents(t) == SelectSeq(events[t], IsVerificationEvent)
Count(evs, s) == Cardinality({i \in DOMAIN evs : evs[i] = s})

\* A streamed run whose run_functional_verification raised an error and
\* whose request boundary has handled it
FailedStream(t) ==
    /\ kind[t] = "stream"
    /\ RfvRaised(t)
    /\ pc[t] \in {"request_exit", "done"}

C12_OneTerminalEvent ==
    \A t \in Tasks :
        (kind[t] = "stream" /\ pc[t] = "done" /\ ~cancelled[t]) =>
            LET evs == events[t]
                n == Len(evs)
            IN /\ n >= 2
               /\ evs[n] = END_SENTINEL
               /\ evs[n - 1] \in {COMPLETE, ERROR}
               /\ Count(evs, COMPLETE) + Count(evs, ERROR) = 1

TestsDue(t) ==
    /\ test_proc[t] # "none"
    /\ ~cancelled[t]
    /\ RfvExited(t)

\* C14: when startup analysis, start_project and test generation succeed,
\* run_functional_verification returns the outcome of executing the test:
\* tests_passed is true exactly when the test process exits with code 0, and
\* for exit code 1 the log is the process's stderr, "assertion failed".
C14_OutcomeFollowsExitCode ==
    \A t \in Tasks :
        TestsDue(t) =>
            /\ rfv_result[t] = NoExc
            /\ pc[t] \in {"request_exit", "done"} =>
                  /\ response[t].verification = VerificationOf(ExecuteTests(TRUE, test_proc[t]))
                  /\ response[t].verification.tests_passed = (test_proc[t] = "exit0")
                  /\ test_proc[t] = "exit1" => response[t].verification.log = "assertion failed"

\* C15: a test process still running after 60 seconds is not fatal:
\* run_functional_verification returns an outcome with tests_passed = FALSE
\* and the timeout in its log, and the project has been stopped.
C15_TestTimeoutNotFatal ==
    \A t \in Tasks :
        (TestsDue(t) /\ test_proc[t] = "timeout") =>
            /\ rfv_result[t] = NoExc
            /\ project[t].stops_done >= 1
            /\ pc[t] \in {"request_exit", "done"} =>
                  /\ ~response[t].verification.tests_passed
                  /\ response[t].verification.log = "Test execution timeout (60s)"

\* The positions inside start_project's try block
StartPcs == { "start_project", "start_cmd", "health_sleep", "health_get",
              "health_poll_sleep", "start_register" }

\* start_project was left without the project having been registered
StartFailed(t) ==
    /\ project[t].created
    /\ ~project[t].started
    /\ pc[t] \notin StartPcs

\* C16: after a failed start the run generates no tests, executes none, and
\* ends with an error: run_functional_verification raises, and the outcome
\* the request boundary builds has tests_passed = FALSE.
C16_StartFailureIsFatal ==
    \A t \in Tasks :
        StartFailed(t) =>
            /\ pc[t] \notin {"rfv_started", "generate_tests"}
            /\ rfv_project[t] = NoProject
            /\ test_proc[t] = "none"
            /\ Count(events[t], GENERATING_TESTS) = 0
            /\ Count(events[t], RUNNING_TESTS) = 0
            /\ ~response[t].verification.tests_passed
            /\ pc[t] \in {"rfv_finally", "rfv_exit"} => exc[t] # NoExc
            /\ RfvExited(t) => rfv_result[t].cls \in {"RuntimeError", "CancelledError"}

C16_Witness ==
    \E t \in Tasks :
        /\ StartFailed(t)
        /\ pc[t] = "done"
        /\ rfv_result[t] = FailedToStartError(CommandTimeoutError("docker_run"))
        /\ response[t].verification.present
        /\ ~response[t].verification.tests_passed

\* C17: a provisioning step that fails makes the start step raise at once:
\* after a missing compose manifest, or a build, compose-up or run command
\* that exited with a non-zero status, start_project issues no further
\* command, does not wait for health and does not register the project.
C17_ProvisioningFailureRaises ==
    \A t \in Tasks :
        /\ exc[t] = ComposeNotFoundError => pc[t] \notin StartPcs
        /\ project[t].cmd_failed => (pc[t] \notin StartPcs /\ ~project[t].started)

\* C18: for every start variant, stop_project on a project whose start
\* issued its provisioning command issues the teardown of that variant:
\* compose down for the compose variant, the forced removal of the
\* container for the dockerfile and the native variants.
C18_TeardownPerVariant ==
    \A t \in Tasks :
        /\ pc[t] = "stop_cmd" =>
              cmd[t] = IF StartVariant(ConfigOf(target[t])) = "compose" THEN "compose_down"
                       ELSE "docker_rm"
        /\ (pc[t] = "stop_finally" /\ project[target[t]].provisioned)
              => project[target[t]].teardown_cmds >= 1

\* A probe of task t was answered with a status below 500
HealthyAnswerSeen(t) ==
    \E i \in DOMAIN trace.steps[t] :
        /\ trace.steps[t][i].name = "HealthGetDone"
        /\ trace.steps[t][i].input[1] # ConnectError
        /\ trace.steps[t][i].input[1] < 500

\* C20: with a health URL configured and no probe answered with a status
\* below 500, start_project never registers the project; once it has
\* raised, the failure is the health-check timeout (wrapped in "Failed to
\* start project"), the running_projects table is empty and the project's
\* is_running is false.
C20_HealthTimeoutScenario ==
    trace.on =>
        \A t \in {WithSink, WithoutSink} :
            ( /\ project[t].created
              /\ startup_config[t].health_check_url # NoUrl
              /\ ~HealthyAnswerSeen(t) )
            => /\ ~project[t].started
               /\ ~project[t].is_running
               /\ pc[t] # "start_register"
               /\ (StartFailureObserved(t)
                     /\ \E i \in DOMAIN trace.steps[t] : trace.steps[t][i].name = "HealthGetDone")
                    => /\ exc[t].msg = "Failed to start project: " \o HealthTimeoutError.msg
                       /\ \A i \in ProjectIds : running_projects[i] = NoProject
                       /\ project[t].stop_calls = 1

C20_Witness ==
    /\ trace.on
    /\ StartFailureObserved(WithoutSink)
    /\ startup_config[WithoutSink].health_check_url # NoUrl
    /\ exc[WithoutSink].msg = "Failed to start project: " \o HealthTimeoutError.msg
    /\ ~project[WithoutSink].is_running
    /\ \A i \in ProjectIds : running_projects[i] = NoProject
    /\ \E i \in DOMAIN trace.steps[WithoutSink] :
          /\ trace.steps[WithoutSink][i].name = "HealthGetDone"
          /\ trace.steps[WithoutSink][i].input[1] = 500

\* C19: the projects that start_project has returned have pairwise distinct
\* project_id values.
C19_ProjectIdsDistinct ==
    \A t, u \in Tasks :
        (t # u /\ project[t].started /\ project[u].started) => IdOf(t) # IdOf(u)

\* The command that runs the container of task t's project exited with status 0
ContainerStarted(t) ==
    \E i \in DOMAIN trace.steps[t] :
        /\ trace.steps[t][i].name = "StartCmdDone"
        /\ trace.steps[t][i].input[1].exit = "ok"

\* Scenario A: a native-runtime config without a health URL whose container starts
ScenarioA(t) ==
    /\ project[t].created
    /\ StartVariant(startup_config[t]) = "native"
    /\ startup_config[t].health_check_url = NoUrl
    /\ ContainerStarted(t)

\* C21: in scenario A start_project does not fail: it returns a project with
\* is_running = TRUE that is in running_projects under its project_id; once
\* the following stop_project has ended, the table is empty and is_running
\* is FALSE.
C21_ScenarioA ==
    trace.on =>
        \A t \in {WithSink, WithoutSink} :
            ScenarioA(t) =>
                /\ ~StartFailed(t)
                /\ pc[t] \notin {"start_except", "health_get", "health_poll_sleep"}
                /\ pc[t] = "rfv_started"
                      => project[t].is_running /\ running_projects[IdOf(t)] = t
                /\ project[t].stops_done >= 1 => (~project[t].is_running /\ ~InTable(t))
                /\ (pc[t] = "stop_exit" /\ target[t] = t)
                      => \A i \in ProjectIds : running_projects[i] = NoProject

C21_Witness ==
    /\ trace.on
    /\ ScenarioA(WithoutSink)
    /\ pc[WithoutSink] = "done"
    /\ project[WithoutSink].started
    /\ project[WithoutSink].stops_done = 1
    /\ ~project[WithoutSink].is_running
    /\ \A i \in ProjectIds : running_projects[i] = NoProject

\* The health wait of task t has just raised its timeout
HealthTimedOut(t) == pc[t] = "start_except" /\ exc[t] = HealthTimeoutError

\* C22 as stated: with no probe answered below 500, the health wait raises
\* its timeout no earlier than STARTUP_TIMEOUT and no later than
\* STARTUP_TIMEOUT plus one poll interval after it began.
C22_TimeoutWithinOnePoll ==
    clock.on =>
        \A t \in Tasks :
            HealthTimedOut(t) =>
                /\ Elapsed >= STARTUP_TIMEOUT
                /\ Elapsed <= STARTUP_TIMEOUT + PollInterval

\* C22 as amended: the health wait raises its timeout no earlier than
\* STARTUP_TIMEOUT and no later than STARTUP_TIMEOUT plus the duration of
\* one probe plus one poll interval after it began; until then a probe is
\* only sent within the deadline.
C22_TimeoutWithinProbeAndPoll ==
    clock.on =>
        \A t \in Tasks :
            /\ HealthTimedOut(t) =>
                  /\ Elapsed >= STARTUP_TIMEOUT
                  /\ Elapsed <= STARTUP_TIMEOUT + clock.probe_time + PollInterval
            /\ pc[t] = "health_get" => Elapsed <= STARTUP_TIMEOUT
            /\ pc[t] = "health_poll_sleep" => Elapsed <= STARTUP_TIMEOUT + clock.probe_time

C22_Witness ==
    /\ clock.on
    /\ HealthTimedOut(TimedClient)
    /\ clock.probe_time = ProbeTimeout
    /\ Elapsed = STARTUP_TIMEOUT + ProbeTimeout + PollInterval

\* C23: a probe answered with a status below 500, a 4xx included, ends the
\* health wait with success and start_project goes on to register the
\* project; a probe answered with 500 or above does not, and the loop
\* sleeps before it polls again.  A project with a health URL is registered
\* only after an answer below 500.
C23_Below500IsHealthy ==
    /\ [](clock.on =>
            \A t \in Tasks :
                (project[t].started /\ startup_config[t].health_check_url # NoUrl)
                    => clock.last \in {a \in ProbeAnswers : a # ConnectError /\ a < 500})
    /\ [][ \A t \in Tasks :
              (clock.on /\ pc[t] = "health_get" /\ pc'[t] # "health_get") =>
                  LET a == clock'.last
                  IN /\ (a # ConnectError /\ a < 500)
                          => (pc'[t] = "start_register" /\ exc'[t] = NoExc)
                     /\ (a # ConnectError /\ a >= 500)
                          => (pc'[t] = "health_poll_sleep" /\ exc'[t] = NoExc) ]_vars

C23_Witness ==
    /\ clock.on
    /\ clock.last = 404
    /\ clock.now > PollInterval
    /\ pc[TimedClient] = "done"
    /\ result[TimedClient] = "returned"
    /\ project[TimedClient].is_running

\* The positions inside _wait_for_health
HealthPcs == {"health_sleep", "health_get", "health_poll_sleep"}

\* C24: a probe that ends with a connection error raises nothing: the loop
\* sleeps and polls again.  Whenever the health wait raises, it raises the
\* timeout, and the deadline has passed.
C24_OnlyDeadlineFails ==
    /\ [][ \A t \in Tasks :
              ( /\ clock.on
                /\ pc[t] = "health_get"
                /\ pc'[t] # "health_get"
                /\ clock'.last = ConnectError )
              => (pc'[t] = "health_poll_sleep" /\ exc'[t] = NoExc) ]_vars
    /\ [][ \A t \in Tasks :
              (clock.on /\ pc[t] \in HealthPcs /\ pc'[t] = "start_except")
              => (exc'[t] = HealthTimeoutError /\ DeadlinePassed(Elapsed')) ]_vars

C24_Witness ==
    /\ clock.on
    /\ clock.last = ConnectError
    /\ pc[TimedClient] = "health_get"
    /\ Elapsed >= PollInterval + ProbeTimeout

\* C25: without a health URL the health wait sends no probe; it sleeps for
\* estimated_startup_time and then succeeds: start_project fails only before
\* the sleep, and after it the project is registered as running, whether
\* or not the command that should have started the service succeeded.
C25_NoUrlSleepsThenSucceeds ==
    clock.on =>
        \A t \in Tasks :
            (project[t].created /\ startup_config[t].health_check_url = NoUrl) =>
                /\ clock.last = NoAnswer
                /\ pc[t] \notin {"health_get", "health_poll_sleep"}
                /\ clock.now \in {0, clock.estimate}
                /\ pc[t] \in {"start_cmd", "health_sleep"} => clock.now = 0
                /\ (StartFailed(t) \/ pc[t] = "start_except") => clock.now = 0
                /\ pc[t] = "start_register" => clock.now = clock.estimate
                /\ project[t].started
                      => (clock.now = clock.estimate /\ pc[t] \in {"rfv_started", "done"})
                /\ pc[t] = "rfv_started"
                      => (project[t].is_running /\ running_projects[IdOf(t)] = t)

C25_Witness ==
    /\ clock.on
    /\ startup_config[TimedClient].health_check_url = NoUrl
    /\ clock.estimate = 90
    /\ clock.now = 90
    /\ result[TimedClient] = "returned"
    /\ project[TimedClient].is_running
    /\ project[TimedClient].cmd_failed
    /\ ~Provisioned(TimedClient)

\* A direct call of _run_command by task t has ended
CommandEnded(t) == kind[t] = "command" /\ returned[t].called

\* C26: when the command exits with a non-zero status, _run_command raises
\* nothing and what it returns carries the failure: it is not what it
\* returns for a command with the same output and exit status 0.
C26_FailureIsData ==
    \A t \in Tasks :
        (CommandEnded(t) /\ returned[t].proc.exits /\ returned[t].proc.returncode # 0) =>
            /\ returned[t].raised = NoExc
            /\ returned[t].value #
                  RunCommand(returned[t].cmd, [returned[t].proc EXCEPT !.returncode = 0]).value

\* C27 as stated: when the command is still running at its timeout,
\* _run_command kills the process and returns a result that states the
\* timeout; it raises nothing.
C27_TimeoutReturnsFailure ==
    \A t \in Tasks :
        (CommandEnded(t) /\ ~returned[t].proc.exits) =>
            /\ returned[t].killed
            /\ returned[t].raised = NoExc
            /\ returned[t].value # << >>

\* C27 as amended: when the command is still running at its timeout,
\* _run_command kills the process and raises a RuntimeError whose text
\* states the timeout; a command that ran and failed is not killed and
\* raises nothing, so the two are told apart.
C27_TimeoutKillsAndRaises ==
    \A t \in Tasks :
        CommandEnded(t) =>
            IF returned[t].proc.exits
              THEN /\ ~returned[t].killed
                   /\ returned[t].raised = NoExc
                   /\ result[t] = "returned"
              ELSE /\ returned[t].killed
                   /\ returned[t].raised = CommandTimeoutError(returned[t].cmd)
                   /\ returned[t].raised.cls = "RuntimeError"
                   /\ result[t] = "raised"

C27_Witness ==
    \E t \in Tasks :
        /\ CommandEnded(t)
        /\ ~returned[t].proc.exits
        /\ returned[t].killed
        /\ returned[t].raised = CommandTimeoutError("docker_build")

\* C28: every wait for a child process is under a timeout: the commands of
\* start and stop, the copy of the test file into the container, the test
\* process and the removal of the test file.
C28_EveryWaitHasTimeout ==
    \A t \in Tasks :
        cmd[t] # "none" => CommandTimeout(cmd[t]) # NoTimeout

\* C29: a RunningProject goes from created to started to stopped and never
\* back.  is_running is set, and the project enters the table, only in
\* start_project after the provisioning commands were issued and the health
\* wait returned, on a project that was never started or stopped before;
\* once a stop_project on the project has ended, it is not running and not
\* in the table, and stays so.
C29_LifecycleProgression ==
    /\ [](\A p \in Tasks :
            /\ project[p].is_running
                  => (project[p].started /\ project[p].provisioned /\ pc[p] \notin StartPcs)
            /\ InTable(p) => project[p].started
            /\ project[p].stops_done >= 1 => (~project[p].is_running /\ ~InTable(p)))
    /\ [][ \A p \in Tasks :
              ((~project[p].is_running /\ project'[p].is_running) \/ (~InTable(p) /\ InTable(p)'))
              => /\ pc[p] = "start_register"
                 /\ project[p].provisioned
                 /\ ~project[p].started
                 /\ project[p].stops_done = 0 ]_vars

C29_Witness ==
    \E p \in Tasks :
        /\ pc[p] = "done"
        /\ kind[p] \in {"plain", "stream"}
        /\ project[p].started
        /\ project[p].stops_done = 2
        /\ ~project[p].is_running
        /\ ~InTable(p)

\* C30: when every call of start_project and stop_project has finished,
\* running_projects holds exactly the projects that started and were not
\* stopped, each under its own project_id.
C30_TableHoldsLiveProjects ==
    (\A t \in Tasks : pc[t] \in {"idle", "done"}) =>
        \A p \in Tasks :
            (project[p].started /\ project[p].stops_done = 0)
                <=> (project[p].created /\ running_projects[IdOf(p)] = p)

\* C33: a stage is announced to the progress sink when the run enters it: a
\* streamed run that is in the health wait, or whose health wait has raised,
\* has emitted WAITING_HEALTH, and a streamed run that is tearing its project
\* down, after a failed start too, has emitted CLEANUP.
C33_StageAnnouncedOnEntry ==
    \A t \in Tasks :
        kind[t] = "stream" =>
            /\ (pc[t] \in HealthPcs \/ HealthTimedOut(t))
                  => \E i \in DOMAIN events[t] : events[t][i] = WAITING_HEALTH
            /\ (pc[t] \in {"stop_cmd", "stop_finally", "stop_exit"} /\ target[t] = t)
                  => \E i \in DOMAIN events[t] : events[t][i] = CLEANUP

\* C34: every entry of running_projects is a project stored under its own
\* project_id that start_project has returned and whose is_running is TRUE,
\* and every project whose is_running is TRUE is the entry under its
\* project_id.
C34_TableInvariant ==
    \A p \in Tasks :
        /\ InTable(p) => /\ running_projects[IdOf(p)] = p
                         /\ project[p].is_running
                         /\ project[p].started
        /\ project[p].is_running => running_projects[IdOf(p)] = p

\* C35: no step of a failing start_project, from its except clause through
\* the stop_project it calls, changes running_projects.
C35_FailedStartKeepsTable ==
    [][ \A t \in Tasks :
           (pc'[t] # pc[t] /\ (pc[t] = "start_except" \/ ret[t] = "start_project"))
              => running_projects' = running_projects ]_vars

\* C36: a start method other than docker-compose, dockerfile, npm and
\* python that reaches start_project is not dispatched: no provisioning
\* command is issued, the health wait is not entered, the project is never
\* started, and start_project raises "Failed to start project: Unknown
\* start method: <method>".
C36_UnknownMethodFails ==
    \A t \in Tasks :
        ( /\ project[t].created
          /\ startup_config[t].start_method
                \notin {"docker-compose", "dockerfile", "npm", "python"} ) =>
            /\ pc[t] \notin {"start_cmd", "start_register", "rfv_started"} \cup HealthPcs
            /\ ~project[t].started
            /\ ~Provisioned(t)
            /\ pc[t] = "start_except"
                  => exc[t] = UnknownMethodError(startup_config[t].start_method)
            /\ (StartFailureObserved(t) /\ ~cancelled[t])
                  => exc[t] = FailedToStartError(
                                 UnknownMethodError(startup_config[t].start_method))

C36_Witness ==
    \E t \in Tasks :
        /\ kind[t] = "plain"
        /\ startup_config[t].start_method = "go"
        /\ project[t].created
        /\ project[t].stop_calls = 1
        /\ pc[t] = "done"
        /\ rfv_result[t] = FailedToStartError(UnknownMethodError("go"))
        /\ docker = {}

\* C40: when `docker cp` exits with a non-zero status, the test command is
\* never run, and _execute_tests raises nothing: it returns passed = FALSE
\* with the log "Failed to copy test file to container".
C40_CopyFailureIsReported ==
    \A t \in Tasks :
        ( /\ kind[t] = "tests"
          /\ "copy" \in DOMAIN returned[t]
          /\ returned[t].copy.returncode # 0 ) =>
            /\ cmd[t] # "docker_exec_test"
            /\ test_proc[t] = "none"
            /\ returned[t].called
            /\ returned[t].raised = NoExc
            /\ returned[t].value =
                  [passed |-> FALSE, log |-> "Failed to copy test file to container"]
            /\ result[t] # "raised"

C40_Witness ==
    \E t \in Tasks :
        /\ kind[t] = "tests"
        /\ pc[t] = "done"
        /\ result[t] = "returned"
        /\ returned[t].called
        /\ returned[t].copy.returncode = 1
        /\ ~returned[t].value.passed
        /\ test_proc[t] = "none"

\* C31: in the native variant, a non-empty install_command is among the
\* commands the container's shell runs, before the start command, which is
\* the config's start_command when that is given.
C31_InstallBeforeStart ==
    \A t \in Tasks :
        ( /\ project[t].provisioned
          /\ StartVariant(startup_config[t]) = "native"
          /\ config_commands[t].install_command # "" ) =>
            LET sh == container_cmd[t]
            IN \E i \in DOMAIN sh :
                  /\ sh[i] = config_commands[t].install_command
                  /\ i < Len(sh)
                  /\ config_commands[t].start_command # ""
                        => sh[Len(sh)] = config_commands[t].start_command

\* C32: in the compose variant .env is written only where there was none,
\* from .env.example if that exists and else from .env.compose.example: an
\* existing .env keeps its content, the example files are left as they are,
\* and once the compose command is issued .env is missing only if both
\* examples are.
C32_EnvCopiedOnce ==
    /\ [](\A t \in Tasks :
            ( /\ project[t].provisioned
              /\ StartVariant(startup_config[t]) = "compose"
              /\ env_files[t].env = NoFile ) =>
                /\ env_files[t].example = NoFile
                /\ env_files[t].compose_example = NoFile)
    /\ [][ \A t \in Tasks :
              LET f == env_files[t]
                  g == env_files'[t]
              IN /\ g.example = f.example
                 /\ g.compose_example = f.compose_example
                 /\ f.env # NoFile => g.env = f.env
                 /\ (f.env = NoFile /\ g.env # NoFile) =>
                       /\ pc[t] = "start_project"
                       /\ StartVariant(startup_config[t]) = "compose"
                       /\ g.env = IF f.example # NoFile THEN f.example
                                                       ELSE f.compose_example ]_vars

C32_Witness ==
    \E t \in Tasks :
        /\ project[t].provisioned
        /\ StartVariant(startup_config[t]) = "compose"
        /\ env_files[t].example = "example settings"
        /\ env_files[t].compose_example = "compose example settings"
        /\ env_files[t].env = "example settings"

\* C37: whatever the progress sink raises on, a run of
\* run_functional_verification that start_project returned a project to
\* has called stop_project on it by the time it exits.
C37_TeardownDespiteSink ==
    \A t \in Tasks :
        (kind[t] = "verify" /\ RfvExited(t) /\ project[t].started)
            => project[t].stop_calls >= 1

\* C38: what the consumer of the stream has been given are the frames of the
\* events the background task emitted, from the first on, each once and in
\* the order of emission; the end sentinel is never among them, and when
\* the consumer reaches the end it has been given every event emitted
\* before the sentinel.
C38_YieldedInEmissionOrder ==
    stream.on =>
        LET evs == events[WithSink]
            y == stream.yielded
        IN /\ Len(y) <= Len(evs)
           /\ \A i \in DOMAIN y : y[i] = format_sse(evs[i]) /\ evs[i] # END_SENTINEL
           /\ stream.consumer = "ended"
                 => (Len(evs) = Len(y) + 1 /\ evs[Len(evs)] = END_SENTINEL)

C38_Witness ==
    /\ stream.on
    /\ stream.consumer = "ended"
    /\ Len(stream.yielded) >= 9
    /\ stream.yielded[1] = format_sse(EXTRACTING)
    /\ stream.yielded[Len(stream.yielded) - 2] = format_sse(CLEANUP)

\* C39: the background task sends the end sentinel once, as its last event,
\* however the analysis ends, and sends it at its end only; once the task
\* has ended, a consumer that is still reading reaches the end of the
\* stream.
C39_SentinelEndsStream ==
    /\ [](stream.on =>
            LET evs == events[WithSink]
            IN /\ pc[WithSink] = "done"
                    => /\ evs # << >>
                       /\ evs[Len(evs)] = END_SENTINEL
                       /\ Count(evs, END_SENTINEL) = 1
               /\ pc[WithSink] # "done" => Count(evs, END_SENTINEL) = 0)
    /\ (stream.on /\ pc[WithSink] = "done" /\ stream.consumer = "reading")
          ~> (stream.consumer = "ended")

C39_Witness ==
    /\ stream.on
    /\ stream.consumer = "ended"
    /\ pc[WithSink] = "done"
    /\ events[WithSink] = << EXTRACTING, ERROR, END_SENTINEL >>
    /\ stream.yielded = << format_sse(EXTRACTING), format_sse(ERROR) >>
====
